---- MODULE Spec2Model ----
(***************************************************************************)
(* Model of the session manager (src/services/auth.ts), the offline queue  *)
(* (src/services/offline.ts) and the trip API that uses both               *)
(* (src/services/api.ts) of the travel-journal client.                     *)
(*                                                                         *)
(* Scheduling: one JavaScript event loop.  Every step of the model is one  *)
(* event-loop turn of one async call: the completion of the I/O it was     *)
(* awaiting (a storage read or write, an HTTP response, the settling of a  *)
(* promise) followed by the synchronous code up to the next await.         *)
(* Promise.all over several storage operations of one call is one await    *)
(* and is taken as one storage access.                                     *)
(***************************************************************************)
EXTENDS Integers, Sequences, FiniteSets, TLC

(***************************************************************************)
(* Bounds of the model.                                                    *)
(***************************************************************************)
NCallers == 2
MaxCalls == 2
MaxTicks == 1

Callers == 1..NCallers
\* thread c is the async call made by caller c, thread c + NCallers the
\* _doRefresh() call that caller c started in refreshTokens()
Threads == 1..(2 * NCallers)
DrOf(c) == c + NCallers
IsDr(t) == t > NCallers

(***************************************************************************)
(* Values.  null and undefined of JavaScript, strings held by the stores.  *)
(***************************************************************************)
Null == [null |-> TRUE]
Pending == [pending |-> TRUE]

marginMillis == 60000
defaultExpiresIn == 3600

StartMs == 1000 * 1000
TickMs == 3600 * 1000

\* an access token: kind "jwt" has a decodable payload segment, kind "mock" is
\* the string 'SIMULATOR_MOCK_TOKEN' or 'mock-...', which has none
Jwt(n, payload) == [kind |-> "jwt", n |-> n, payload |-> payload]
MockToken == [kind |-> "mock", n |-> 0, payload |-> Null]
RefreshTok(n) == [kind |-> "refresh", n |-> n]

\* Number.prototype.toString() of a non-negative integer: its decimal digits
RECURSIVE Digits(_)
Digits(n) == IF n < 10 THEN <<n>> ELSE Append(Digits(n \div 10), n % 10)
\* the string of an expiry held in seconds
NumToStringSeconds(n) == [str |-> Digits(n \div 1000)]

NumToString(n) == [str |-> Digits(n)]

\* parseInt(s, 10) of a string of decimal digits
RECURSIVE DigitsValue(_)
DigitsValue(ds) ==
    IF ds = <<>> THEN 0
    ELSE 10 * DigitsValue(SubSeq(ds, 1, Len(ds) - 1)) + ds[Len(ds)]
parseInt(s) == DigitsValue(s.str)

(***************************************************************************)
(* decodeJWT and isTokenExpired.                                           *)
(***************************************************************************)
\* the values a claim of the JSON payload can have; the characters of a
\* string are numbers, 0 to 9 for the digits and others for the rest
JsNumber(n) == [type |-> "number", num |-> n]
JsString(chars) == [type |-> "string", chars |-> chars]
JsBoolean(b) == [type |-> "boolean", bool |-> b]
JsNull == [type |-> "null"]
JsArray(items) == [type |-> "array", items |-> items]
JsObject == [type |-> "object"]
\* Array.isArray
isArray(v) == v.type = "array"

\* a body that response.json() cannot parse
InvalidJson == [invalid |-> TRUE]
NaN == [type |-> "number", nan |-> TRUE]

\* what `!v` takes for false
IsTruthy(v) ==
    CASE v.type = "number" -> v # NaN /\ v.num # 0
      [] v.type = "string" -> v.chars # <<>>
      [] v.type = "boolean" -> v.bool
      [] OTHER -> FALSE

\* the number that `v * 1000` makes of v
ToNumber(v) ==
    CASE v.type = "number" -> v
      [] v.type = "string" ->
            IF \A i \in 1..Len(v.chars) : v.chars[i] \in 0..9
            THEN JsNumber(DigitsValue(v.chars)) ELSE NaN
      [] v.type = "boolean" -> JsNumber(IF v.bool THEN 1 ELSE 0)
      [] OTHER -> JsNumber(0)

decodeJWT(token) == IF token.kind = "jwt" THEN token.payload ELSE Null

\* auth.ts:66-90; a comparison with NaN is false
isTokenExpired(token, now) ==
    LET decoded == decodeJWT(token)
    IN  IF token = Null THEN TRUE
        ELSE IF decoded = Null THEN TRUE
        ELSE IF ~("exp" \in DOMAIN decoded) THEN TRUE
        ELSE IF ~IsTruthy(decoded.exp) THEN TRUE
        ELSE LET exp == ToNumber(decoded.exp)
             IN  IF exp = NaN THEN FALSE
                 ELSE now >= exp.num * 1000 - marginMillis

(***************************************************************************)
(* The secure store (expo-secure-store) and its four keys.                 *)
(***************************************************************************)
KEYS == {"ACCESS_TOKEN", "REFRESH_TOKEN", "TOKEN_EXPIRY", "USER_DATA"}
TOKEN_KEYS == {"ACCESS_TOKEN", "REFRESH_TOKEN", "TOKEN_EXPIRY"}

EmptyStore == [k \in KEYS |-> Null]

\* saveTokens: three set() under one Promise.all
saveTokens(store, tokens) ==
    [store EXCEPT !["ACCESS_TOKEN"] = tokens.accessToken,
                  !["REFRESH_TOKEN"] = tokens.refreshToken,
                  !["TOKEN_EXPIRY"] = NumToString(tokens.expiresAt)]

\* clearTokens: three remove() under one Promise.all
clearTokens(store) == [k \in KEYS |-> IF k \in TOKEN_KEYS THEN Null ELSE store[k]]

saveUser(store, user) == [store EXCEPT !["USER_DATA"] = [json |-> user]]
clearUser(store) == [store EXCEPT !["USER_DATA"] = Null]
getUser(store) == IF store["USER_DATA"] = Null THEN Null ELSE store["USER_DATA"].json

\* getTokens up to its return or its second await: what the three get() read
IsMock(store) ==
    /\ store["ACCESS_TOKEN"] # Null
    /\ store["REFRESH_TOKEN"] # Null
    /\ store["ACCESS_TOKEN"].kind = "mock"

ReadTokens(store) ==
    IF store["ACCESS_TOKEN"] = Null \/ store["REFRESH_TOKEN"] = Null THEN Null
    ELSE [accessToken |-> store["ACCESS_TOKEN"],
          refreshToken |-> store["REFRESH_TOKEN"],
          expiresAt |-> IF store["TOKEN_EXPIRY"] = Null THEN 0
                        ELSE parseInt(store["TOKEN_EXPIRY"])]

(***************************************************************************)
(* State.                                                                  *)
(***************************************************************************)
VARIABLES
    now,             \* Date.now(), in milliseconds
    ticks,           \* how often the clock has advanced
    calls,           \* how many calls the callers have made
    secure,          \* the secure store: the Credential and the Identity
    refreshPromise,  \* auth.ts:92, 0 for null, else the number of a promise
    promises,        \* promise n of _doRefresh(): Pending, or what it resolved to
    pcalls,          \* requests sent to /auth/refresh on behalf of promise n
    pfound,          \* whether _doRefresh() of promise n found stored tokens
    poutcome,        \* how the request of _doRefresh() of promise n ended
    issued,          \* how many tokens the server has issued
    th,              \* per thread: position and locals of its async call
    online,          \* the platform's connectivity signal
    astore,          \* AsyncStorage: '@offline_queue' and '@cached_trips'
    added,           \* payloads whose addToQueue() has returned
    removed,         \* ids whose removeFromQueue() has returned
    acked,           \* payloads whose replay request received a 2xx response
    hook             \* useOffline: its React state and the closures of its renders

clock == <<now, ticks>>
refreshVars == <<refreshPromise, promises, pcalls, pfound, poutcome>>
authVars == <<secure, refreshPromise, promises, pcalls, pfound, poutcome, issued>>
queueVars == <<online, astore, added, removed, acked, hook>>
vars == <<now, ticks, calls, secure, refreshPromise, promises, pcalls, pfound, poutcome, issued, th,
          online, astore, added, removed, acked, hook>>

\* the locals of one async call; the fields nreq .. bearer2 record what an
\* auth.fetch call has sent so far
Fresh ==
    [pc |-> "idle", op |-> "none",
     tokens |-> Null, user |-> Null, refreshed |-> Null, response |-> Null,
     awaiting |-> 0, owner |-> FALSE, after |-> Null, result |-> Null,
     nreq |-> 0, nrefresh |-> 0, nrefresh401 |-> 0,
     first |-> Null, second |-> Null, bearer1 |-> Null, bearer2 |-> Null,
     queue |-> <<>>, idx |-> 0, synced |-> 0, failed |-> 0,
     filtered |-> <<>>, rid |-> Null, settled |-> 0,
     action |-> Null, attempts |-> <<>>, outcomes |-> <<>>,
     trip |-> Null, offlineAtCall |-> FALSE, post |-> Null, trips |-> <<>>,
     input |-> Null, at |-> 0, seq |-> 0, data |-> Null, before |-> Null]

\* a _doRefresh() thread with no call running
Off == [Fresh EXCEPT !.pc = "off"]

\* use-offline.ts:7-9 and 34-49: what a render of useOffline makes syncNow
\* close over
Closure(isSyncing, isOnline) == [isSyncing |-> isSyncing, isOnline |-> isOnline]

\* useOffline after its first render and its effect (use-offline.ts:7-27):
\* the state, the syncNow of the latest render, what the listener given to
\* NetInfo closes over, and the loadPendingCount() the effect has started;
\* regained records that the last report of NetInfo went from offline to online
Mounted ==
    [isOnline |-> TRUE, pendingCount |-> 0, isSyncing |-> FALSE,
     syncNow |-> Closure(FALSE, TRUE),
     listener |-> [pendingCount |-> 0, syncNow |-> Closure(FALSE, TRUE)],
     loading |-> TRUE, events |-> 0, regained |-> FALSE]

Idle(c) == th[c].pc \in {"idle", "done"}
CanCall(c) == Idle(c) /\ calls < MaxCalls

Return(v) == [kind |-> "return", value |-> v]
Throw(msg) == [kind |-> "throw", error |-> msg]

StatusCodes == {200, 401, 500}
Ok(status) == status >= 200 /\ status <= 299
Response(status) == [kind |-> "response", status |-> status]
NetworkError == [kind |-> "throw", error |-> "Network request failed"]
\* what fetch() can settle with
FetchOutcomes == {Response(s) : s \in StatusCodes} \cup {NetworkError}
\* without connectivity a request fails at the transport level
NetOutcomes(connected) == IF connected THEN FetchOutcomes ELSE {NetworkError}

(***************************************************************************)
(* Sessions the secure store can hold when the app starts.                 *)
(***************************************************************************)
ValidAccess == Jwt(0, [exp |-> JsNumber((StartMs \div 1000) + 3600)])
ExpiredAccess == Jwt(0, [exp |-> JsNumber((StartMs \div 1000) + 30)])

Session(access) ==
    saveUser(saveTokens(EmptyStore,
                        [accessToken |-> access, refreshToken |-> RefreshTok(0),
                         expiresAt |-> StartMs]),
             [id |-> "u0", email |-> "u0@example.org", name |-> "U", roles |-> {}])

InitStores == {EmptyStore, Session(ValidAccess), Session(ExpiredAccess), Session(MockToken)}

(***************************************************************************)
(* refreshTokens (auth.ts:283-292) and _doRefresh (auth.ts:293-324).       *)
(***************************************************************************)
\* a caller at an await of refreshTokens(): its promise has settled
Settled(c) == th[c].awaiting # 0 /\ promises[th[c].awaiting] # Pending
RefreshValue(c) == promises[th[c].awaiting]

\* a settled promise has continuations to run: they run before the event
\* loop takes the next I/O completion
Microtasks ==
    \E c \in Callers :
        th[c].pc \in {"rt_await", "f_await1", "f_await2", "as_await", "ia_await"} /\ Settled(c)

\* the I/O that thread t awaits at label completes and t runs on
AtIO(t, label) == th[t].pc = label /\ ~Microtasks

\* refreshTokens() without its first line: every call starts a _doRefresh()
refreshTokensUnguarded(c, rec, label) ==
    LET pid == Len(promises) + 1
    IN  /\ promises' = Append(promises, Pending)
        /\ pcalls' = Append(pcalls, 0)
        /\ pfound' = Append(pfound, "unread")
        /\ poutcome' = Append(poutcome, "none")
        /\ refreshPromise' = pid
        /\ th' = [th EXCEPT ![c] = [rec EXCEPT !.pc = label,
                                               !.awaiting = pid,
                                               !.owner = TRUE,
                                               !.nrefresh = @ + 1],
                            ![DrOf(c)] = [Fresh EXCEPT !.pc = "dr_getTokens",
                                                       !.op = "_doRefresh",
                                                       !.awaiting = pid]]

\* the synchronous part of refreshTokens(): caller c, whose locals become rec,
\* awaits at label the promise in flight or the one of a new _doRefresh()
refreshTokens(c, rec, label) ==
    IF refreshPromise # 0
    THEN /\ th' = [th EXCEPT ![c] = [rec EXCEPT !.pc = label,
                                                !.awaiting = refreshPromise,
                                                !.owner = FALSE,
                                                !.nrefresh = @ + 1]]
         /\ UNCHANGED refreshVars
    ELSE LET pid == Len(promises) + 1
         IN  /\ promises' = Append(promises, Pending)
             /\ pcalls' = Append(pcalls, 0)
             /\ pfound' = Append(pfound, "unread")
             /\ poutcome' = Append(poutcome, "none")
             /\ refreshPromise' = pid
             /\ th' = [th EXCEPT ![c] = [rec EXCEPT !.pc = label,
                                                    !.awaiting = pid,
                                                    !.owner = TRUE,
                                                    !.nrefresh = @ + 1],
                                 ![DrOf(c)] = [Fresh EXCEPT !.pc = "dr_getTokens",
                                                            !.op = "_doRefresh",
                                                            !.awaiting = pid]]

\* a finally block that leaves the marker as it is
refreshSettledKeeps(c) == UNCHANGED refreshPromise

\* the caller resumes after `await refreshPromise`: the finally block of the
\* call that started the refresh clears the marker
refreshSettled(c) ==
    IF th[c].owner THEN refreshPromise' = 0 ELSE UNCHANGED refreshPromise

\* _doRefresh() returns v: its promise resolves
Resolve(d, v) ==
    /\ promises' = [promises EXCEPT ![th[d].awaiting] = v]
    /\ th' = [th EXCEPT ![d] = Off]

\* the body of a 2xx answer of the refresh endpoint: a new access token under
\* accessToken or under token, and optionally refreshToken and expiresIn
NewAccess(n, t) == Jwt(n, [exp |-> JsNumber((t \div 1000) + 3600)])
RefreshBodies(n, t) ==
    { [accessToken |-> NewAccess(n, t), refreshToken |-> RefreshTok(n), expiresIn |-> 7200],
      [token |-> NewAccess(n, t)] }

\* a Credential that keeps the refresh token that was read
newTokensKeepRefresh(data, tokens, t) ==
    [accessToken |-> IF "accessToken" \in DOMAIN data THEN data.accessToken ELSE data.token,
     refreshToken |-> tokens.refreshToken,
     expiresAt |-> t + (IF "expiresIn" \in DOMAIN data /\ data.expiresIn # 0
                        THEN data.expiresIn ELSE defaultExpiresIn) * 1000]

\* auth.ts:312-316
newTokens(data, tokens, t) ==
    [accessToken |-> IF "accessToken" \in DOMAIN data THEN data.accessToken ELSE data.token,
     refreshToken |-> IF "refreshToken" \in DOMAIN data THEN data.refreshToken
                      ELSE tokens.refreshToken,
     expiresAt |-> t + (IF "expiresIn" \in DOMAIN data /\ data.expiresIn # 0
                        THEN data.expiresIn ELSE defaultExpiresIn) * 1000]

\* auth.ts:295-303: the stored tokens are read; without them null, else the request
DoRefreshAfterGet(d, tokens) ==
    IF tokens = Null
    THEN /\ Resolve(d, Null)
         /\ pfound' = [pfound EXCEPT ![th[d].awaiting] = "no"]
         /\ UNCHANGED <<pcalls, poutcome>>
    ELSE /\ th' = [th EXCEPT ![d] = [@ EXCEPT !.pc = "dr_fetch", !.tokens = tokens]]
         /\ pcalls' = [pcalls EXCEPT ![th[d].awaiting] = @ + 1]
         /\ pfound' = [pfound EXCEPT ![th[d].awaiting] = "yes"]
         /\ UNCHANGED <<promises, poutcome>>

DoRefreshGetTokens(d) ==
    /\ AtIO(d, "dr_getTokens")
    /\ IF IsMock(secure)
       THEN /\ th' = [th EXCEPT ![d] = [@ EXCEPT !.pc = "dr_gtClear"]]
            /\ UNCHANGED <<promises, pcalls, pfound, poutcome>>
       ELSE DoRefreshAfterGet(d, ReadTokens(secure))
    /\ UNCHANGED <<clock, calls, secure, refreshPromise, issued, queueVars>>

DoRefreshGetTokensClear(d) ==
    /\ AtIO(d, "dr_gtClear")
    /\ secure' = clearTokens(secure)
    /\ DoRefreshAfterGet(d, Null)
    /\ UNCHANGED <<clock, calls, refreshPromise, issued, queueVars>>

\* auth.ts:299-323: the answer of the refresh endpoint
DoRefreshResponse(d) ==
    /\ AtIO(d, "dr_fetch")
    /\ \E out \in NetOutcomes(online) :
          IF out.kind = "throw"
          THEN /\ Resolve(d, Null)
               /\ poutcome' = [poutcome EXCEPT ![th[d].awaiting] = "threw"]
               /\ UNCHANGED issued
          ELSE IF ~Ok(out.status)
          THEN /\ th' = [th EXCEPT ![d] = [@ EXCEPT !.pc = "lo_getTokens", !.response = out]]
               /\ poutcome' = [poutcome EXCEPT ![th[d].awaiting] = "rejected"]
               /\ UNCHANGED <<promises, issued>>
          ELSE \E data \in RefreshBodies(issued + 1, now) :
               /\ th' = [th EXCEPT ![d] = [@ EXCEPT !.pc = "dr_save",
                                                    !.response = out,
                                                    !.data = data,
                                                    !.refreshed = newTokens(data, th[d].tokens, now)]]
               /\ issued' = issued + 1
               /\ poutcome' = [poutcome EXCEPT ![th[d].awaiting] = "ok"]
               /\ UNCHANGED promises
    /\ UNCHANGED <<clock, calls, secure, refreshPromise, pcalls, pfound, queueVars>>

\* auth.ts:318-319
DoRefreshSave(d) ==
    /\ AtIO(d, "dr_save")
    /\ secure' = saveTokens(secure, th[d].refreshed)
    /\ Resolve(d, th[d].refreshed)
    /\ UNCHANGED <<clock, calls, refreshPromise, pcalls, pfound, poutcome, issued, queueVars>>

(***************************************************************************)
(* logout (auth.ts:267-282), called by a caller or by _doRefresh.          *)
(***************************************************************************)
\* auth.ts:280: Promise.all([this.clearTokens, this.clearUser()]) calls
\* clearUser; this.clearTokens is named, not called
\* a logout that clears nothing
logoutClearNothing(store) == store

logoutClear(store) == clearUser(store)

LogoutAfterGet(t, tokens) ==
    th' = [th EXCEPT ![t] = [@ EXCEPT !.pc = IF tokens # Null THEN "lo_fetch" ELSE "lo_clear",
                                      !.tokens = tokens]]

LogoutGetTokens(t) ==
    /\ AtIO(t, "lo_getTokens")
    /\ IF IsMock(secure)
       THEN th' = [th EXCEPT ![t] = [@ EXCEPT !.pc = "lo_gtClear"]]
       ELSE LogoutAfterGet(t, ReadTokens(secure))
    /\ UNCHANGED <<clock, calls, authVars, queueVars>>

LogoutGetTokensClear(t) ==
    /\ AtIO(t, "lo_gtClear")
    /\ secure' = clearTokens(secure)
    /\ LogoutAfterGet(t, Null)
    /\ UNCHANGED <<clock, calls, refreshVars, issued, queueVars>>

\* the POST to /auth/logout settles; its status is not read, its exception caught
LogoutResponse(t) ==
    /\ AtIO(t, "lo_fetch")
    /\ \E out \in NetOutcomes(online) :
          th' = [th EXCEPT ![t] = [@ EXCEPT !.pc = "lo_clear"]]
    /\ UNCHANGED <<clock, calls, authVars, queueVars>>

LogoutClear(t) ==
    /\ AtIO(t, "lo_clear")
    /\ secure' = logoutClear(secure)
    /\ IF IsDr(t)
       THEN Resolve(t, Null)
       ELSE /\ th' = [th EXCEPT ![t] = [@ EXCEPT !.pc = "done", !.result = Return(Null)]]
            /\ UNCHANGED promises
    /\ UNCHANGED <<clock, calls, refreshPromise, pcalls, pfound, poutcome, issued, queueVars>>

(***************************************************************************)
(* auth.fetch (auth.ts:374-414).                                           *)
(***************************************************************************)
\* the k-th response of one auth.fetch call
Answer(out, k) == [kind |-> "response", status |-> out.status, req |-> k]

\* API.getTrips resumes after `await auth.fetch(...)` (api.ts:156-168)
GetTripsAfterFetch(rec, result) ==
    [rec EXCEPT !.pc = IF result.kind = "return" /\ Ok(result.value.status)
                       THEN "trips_json" ELSE "trips_cached",
                !.response = IF result.kind = "return" THEN result.value ELSE Null]

\* auth.fetch returns or throws: to its caller
FetchEnd(rec, result) ==
    IF rec.op = "fetch"
    THEN [rec EXCEPT !.pc = "done", !.result = result]
    ELSE GetTripsAfterFetch([rec EXCEPT !.result = result], result)

\* the retry sent with the token of the first request
RetryBearerStale(tokens, refreshed) == tokens.accessToken

\* auth.ts:408: the token the retry carries
RetryBearer(tokens, refreshed) == refreshed.accessToken

\* the first request sent with the tokens that were read first, when the
\* assignment `tokens = refreshed` is left out
FetchSendStored(rec, tokens) ==
    [rec EXCEPT !.pc = "f_req1", !.tokens = tokens, !.nreq = 1,
                !.bearer1 = IF rec.tokens = Null THEN tokens.accessToken
                            ELSE rec.tokens.accessToken]

\* auth.ts:388-394: the first request, with the bearer of tokens
FetchSend(rec, tokens) ==
    [rec EXCEPT !.pc = "f_req1", !.tokens = tokens, !.nreq = 1,
                !.bearer1 = tokens.accessToken]

\* auth.ts:376-386
FetchAfterGet(c, tokens) ==
    IF tokens = Null
    THEN /\ th' = [th EXCEPT ![c] = FetchEnd(@, Throw("Not authenticated"))]
         /\ UNCHANGED refreshVars
    ELSE IF isTokenExpired(tokens.accessToken, now)
    THEN refreshTokens(c, [th[c] EXCEPT !.tokens = tokens], "f_await1")
    ELSE /\ th' = [th EXCEPT ![c] = FetchSend(@, tokens)]
         /\ UNCHANGED refreshVars

FetchGetTokens(c) ==
    /\ AtIO(c, "f_getTokens")
    /\ IF IsMock(secure)
       THEN /\ th' = [th EXCEPT ![c] = [@ EXCEPT !.pc = "f_gtClear"]]
            /\ UNCHANGED refreshVars
       ELSE FetchAfterGet(c, ReadTokens(secure))
    /\ UNCHANGED <<clock, calls, secure, issued, queueVars>>

FetchGetTokensClear(c) ==
    /\ AtIO(c, "f_gtClear")
    /\ secure' = clearTokens(secure)
    /\ FetchAfterGet(c, Null)
    /\ UNCHANGED <<clock, calls, issued, queueVars>>

\* auth.ts:379-385: the refresh of an expired token has settled
FetchRefreshed(c) ==
    /\ th[c].pc = "f_await1"
    /\ Settled(c)
    /\ refreshSettled(c)
    /\ LET refreshed == RefreshValue(c)
       IN  th' = [th EXCEPT ![c] =
                    IF refreshed = Null
                    THEN [@ EXCEPT !.pc = "clearTokens", !.refreshed = Null,
                                   !.after = Throw("Session expired")]
                    ELSE FetchSend([@ EXCEPT !.refreshed = refreshed], refreshed)]
    /\ UNCHANGED <<clock, calls, secure, promises, pcalls, pfound, poutcome, issued, queueVars>>

\* auth.ts:388-402: the first response
FetchResponse(c) ==
    /\ AtIO(c, "f_req1")
    /\ \E out \in NetOutcomes(online) :
          IF out.kind = "throw"
          THEN /\ th' = [th EXCEPT ![c] = FetchEnd(@, out)]
               /\ UNCHANGED refreshVars
          ELSE IF out.status = 401
          THEN refreshTokens(c, [th[c] EXCEPT !.first = Answer(out, 1),
                                              !.response = Answer(out, 1),
                                              !.nrefresh401 = @ + 1],
                             "f_await2")
          ELSE /\ th' = [th EXCEPT ![c] =
                           FetchEnd([@ EXCEPT !.first = Answer(out, 1),
                                              !.response = Answer(out, 1)],
                                    Return(Answer(out, 1)))]
               /\ UNCHANGED refreshVars
    /\ UNCHANGED <<clock, calls, secure, issued, queueVars>>

\* auth.ts:397-410: the refresh after a 401 has settled
FetchRetry(c) ==
    /\ th[c].pc = "f_await2"
    /\ Settled(c)
    /\ refreshSettled(c)
    /\ LET refreshed == RefreshValue(c)
       IN  th' = [th EXCEPT ![c] =
                    IF refreshed = Null
                    THEN [@ EXCEPT !.pc = "clearTokens", !.refreshed = Null,
                                   !.after = Throw("Session expired")]
                    ELSE [@ EXCEPT !.pc = "f_req2", !.refreshed = refreshed,
                                   !.nreq = @ + 1,
                                   !.bearer2 = RetryBearer(th[c].tokens, refreshed)]]
    /\ UNCHANGED <<clock, calls, secure, promises, pcalls, pfound, poutcome, issued, queueVars>>

\* auth.ts:404-413: the response of the retry is returned
FetchRetryResponse(c) ==
    /\ AtIO(c, "f_req2")
    /\ \E out \in NetOutcomes(online) :
          th' = [th EXCEPT ![c] =
                   IF out.kind = "throw"
                   THEN FetchEnd(@, out)
                   ELSE FetchEnd([@ EXCEPT !.second = Answer(out, 2),
                                           !.response = Answer(out, 2)],
                                 Return(Answer(out, 2)))]
    /\ UNCHANGED <<clock, calls, authVars, queueVars>>

\* `await this.clearTokens(); await this.clearUser();` and then what follows
\* (auth.ts:381-383, 399-401, 339-341, 364-366)
AfterClear(rec) ==
    IF rec.op \in {"getAuthState", "isAuthenticated"}
    THEN [rec EXCEPT !.pc = "done", !.result = rec.after]
    ELSE FetchEnd(rec, rec.after)

ClearTokensStep(c) ==
    /\ AtIO(c, "clearTokens")
    /\ secure' = clearTokens(secure)
    /\ th' = [th EXCEPT ![c] = [@ EXCEPT !.pc = "clearUser"]]
    /\ UNCHANGED <<clock, calls, refreshVars, issued, queueVars>>

ClearUserStep(c) ==
    /\ AtIO(c, "clearUser")
    /\ secure' = clearUser(secure)
    /\ th' = [th EXCEPT ![c] = AfterClear(@)]
    /\ UNCHANGED <<clock, calls, refreshVars, issued, queueVars>>

(***************************************************************************)
(* getAuthState (auth.ts:325-354) and isAuthenticated (auth.ts:355-372).   *)
(***************************************************************************)
AuthState(user, tokens, isAuth) ==
    Return([user |-> user, tokens |-> tokens, isAuthenticated |-> isAuth])
Unauthenticated == AuthState(Null, Null, FALSE)

\* getAuthState() without the test of the user in auth.ts:330
AuthStateAfterGetAnyUser(c, user, tokens) ==
    IF tokens = Null
    THEN /\ th' = [th EXCEPT ![c] = [@ EXCEPT !.pc = "done", !.result = Unauthenticated]]
         /\ UNCHANGED refreshVars
    ELSE IF isTokenExpired(tokens.accessToken, now)
    THEN refreshTokens(c, [th[c] EXCEPT !.user = user, !.tokens = tokens], "as_await")
    ELSE /\ th' = [th EXCEPT ![c] = [@ EXCEPT !.pc = "done", !.user = user, !.tokens = tokens,
                                              !.result = AuthState(user, tokens, TRUE)]]
         /\ UNCHANGED refreshVars

\* auth.ts:330-348
AuthStateAfterGet(c, user, tokens) ==
    IF user = Null \/ tokens = Null
    THEN /\ th' = [th EXCEPT ![c] = [@ EXCEPT !.pc = "done", !.result = Unauthenticated]]
         /\ UNCHANGED refreshVars
    ELSE IF isTokenExpired(tokens.accessToken, now)
    THEN refreshTokens(c, [th[c] EXCEPT !.user = user, !.tokens = tokens], "as_await")
    ELSE /\ th' = [th EXCEPT ![c] = [@ EXCEPT !.pc = "done", !.user = user, !.tokens = tokens,
                                              !.result = AuthState(user, tokens, TRUE)]]
         /\ UNCHANGED refreshVars

AuthStateRead(c) ==
    /\ AtIO(c, "as_read")
    /\ IF IsMock(secure)
       THEN /\ th' = [th EXCEPT ![c] = [@ EXCEPT !.pc = "as_gtClear", !.user = getUser(secure)]]
            /\ UNCHANGED refreshVars
       ELSE AuthStateAfterGet(c, getUser(secure), ReadTokens(secure))
    /\ UNCHANGED <<clock, calls, secure, issued, queueVars>>

AuthStateGetTokensClear(c) ==
    /\ AtIO(c, "as_gtClear")
    /\ secure' = clearTokens(secure)
    /\ AuthStateAfterGet(c, th[c].user, Null)
    /\ UNCHANGED <<clock, calls, issued, queueVars>>

\* auth.ts:337-344
AuthStateRefreshed(c) ==
    /\ th[c].pc = "as_await"
    /\ Settled(c)
    /\ refreshSettled(c)
    /\ LET refreshed == RefreshValue(c)
       IN  th' = [th EXCEPT ![c] =
                    IF refreshed = Null
                    THEN [@ EXCEPT !.pc = "clearTokens", !.refreshed = Null,
                                   !.after = Unauthenticated]
                    ELSE [@ EXCEPT !.pc = "done", !.refreshed = refreshed,
                                   !.result = AuthState(th[c].user, refreshed, TRUE)]]
    /\ UNCHANGED <<clock, calls, secure, promises, pcalls, pfound, poutcome, issued, queueVars>>

\* auth.ts:356-371
IsAuthAfterGet(c, tokens) ==
    IF tokens = Null
    THEN /\ th' = [th EXCEPT ![c] = [@ EXCEPT !.pc = "done", !.result = Return(FALSE)]]
         /\ UNCHANGED refreshVars
    ELSE IF isTokenExpired(tokens.accessToken, now)
    THEN refreshTokens(c, [th[c] EXCEPT !.tokens = tokens], "ia_await")
    ELSE /\ th' = [th EXCEPT ![c] = [@ EXCEPT !.pc = "done", !.tokens = tokens,
                                              !.result = Return(TRUE)]]
         /\ UNCHANGED refreshVars

IsAuthGetTokens(c) ==
    /\ AtIO(c, "ia_getTokens")
    /\ IF IsMock(secure)
       THEN /\ th' = [th EXCEPT ![c] = [@ EXCEPT !.pc = "ia_gtClear"]]
            /\ UNCHANGED refreshVars
       ELSE IsAuthAfterGet(c, ReadTokens(secure))
    /\ UNCHANGED <<clock, calls, secure, issued, queueVars>>

IsAuthGetTokensClear(c) ==
    /\ AtIO(c, "ia_gtClear")
    /\ secure' = clearTokens(secure)
    /\ IsAuthAfterGet(c, Null)
    /\ UNCHANGED <<clock, calls, issued, queueVars>>

\* auth.ts:362-368
IsAuthRefreshed(c) ==
    /\ th[c].pc = "ia_await"
    /\ Settled(c)
    /\ refreshSettled(c)
    /\ LET refreshed == RefreshValue(c)
       IN  th' = [th EXCEPT ![c] =
                    IF refreshed = Null
                    THEN [@ EXCEPT !.pc = "clearTokens", !.refreshed = Null,
                                   !.after = Return(FALSE)]
                    ELSE [@ EXCEPT !.pc = "done", !.refreshed = refreshed,
                                   !.result = Return(TRUE)]]
    /\ UNCHANGED <<clock, calls, secure, promises, pcalls, pfound, poutcome, issued, queueVars>>

(***************************************************************************)
(* The callers of the session manager, and the clock.                      *)
(***************************************************************************)
Begin(c, opname, label) == [Fresh EXCEPT !.pc = label, !.op = opname]

CallFetch(c) ==
    /\ CanCall(c)
    /\ th' = [th EXCEPT ![c] = Begin(c, "fetch", "f_getTokens")]
    /\ calls' = calls + 1
    /\ UNCHANGED <<clock, authVars, queueVars>>

CallGetAuthState(c) ==
    /\ CanCall(c)
    /\ th' = [th EXCEPT ![c] = Begin(c, "getAuthState", "as_read")]
    /\ calls' = calls + 1
    /\ UNCHANGED <<clock, authVars, queueVars>>

CallIsAuthenticated(c) ==
    /\ CanCall(c)
    /\ th' = [th EXCEPT ![c] = Begin(c, "isAuthenticated", "ia_getTokens")]
    /\ calls' = calls + 1
    /\ UNCHANGED <<clock, authVars, queueVars>>

\* input records whether a refresh is in flight when logout() is called
CallLogout(c) ==
    /\ CanCall(c)
    /\ th' = [th EXCEPT ![c] = [Begin(c, "logout", "lo_getTokens")
                                   EXCEPT !.input = [refreshing |-> refreshPromise # 0]]]
    /\ calls' = calls + 1
    /\ UNCHANGED <<clock, authVars, queueVars>>

\* a caller of refreshTokens() itself
CallRefreshTokens(c) ==
    /\ CanCall(c)
    /\ refreshTokens(c, Begin(c, "refreshTokens", "rt_await"), "rt_await")
    /\ calls' = calls + 1
    /\ UNCHANGED <<clock, secure, issued, queueVars>>

RefreshTokensReturn(c) ==
    /\ th[c].pc = "rt_await"
    /\ Settled(c)
    /\ refreshSettled(c)
    /\ th' = [th EXCEPT ![c] = [@ EXCEPT !.pc = "done", !.refreshed = RefreshValue(c),
                                         !.result = Return(RefreshValue(c))]]
    /\ UNCHANGED <<clock, calls, secure, promises, pcalls, pfound, poutcome, issued, queueVars>>

Tick ==
    /\ ~Microtasks
    /\ ticks < MaxTicks
    /\ now' = now + TickMs
    /\ ticks' = ticks + 1
    /\ UNCHANGED <<calls, authVars, th, queueVars>>

(***************************************************************************)
(* The session manager under concurrent callers.                           *)
(***************************************************************************)
InitAuth ==
    /\ now = StartMs
    /\ ticks = 0
    /\ calls = 0
    /\ secure \in InitStores
    /\ refreshPromise = 0
    /\ promises = <<>>
    /\ pcalls = <<>>
    /\ pfound = <<>>
    /\ poutcome = <<>>
    /\ issued = 0
    /\ th = [t \in Threads |-> IF IsDr(t) THEN Off ELSE Fresh]
    /\ online = TRUE
    /\ astore = [queue |-> Null, trips |-> Null]
    /\ added = {}
    /\ removed = {}
    /\ acked = {}
    /\ hook = Mounted

\* the completion of a storage access or of an HTTP request of thread t
AuthIO(t) ==
    \/ DoRefreshGetTokens(t) \/ DoRefreshGetTokensClear(t)
    \/ DoRefreshResponse(t) \/ DoRefreshSave(t)
    \/ LogoutGetTokens(t) \/ LogoutGetTokensClear(t)
    \/ LogoutResponse(t) \/ LogoutClear(t)
    \/ FetchGetTokens(t) \/ FetchGetTokensClear(t)
    \/ FetchResponse(t) \/ FetchRetryResponse(t)
    \/ ClearTokensStep(t) \/ ClearUserStep(t)
    \/ AuthStateRead(t) \/ AuthStateGetTokensClear(t)
    \/ IsAuthGetTokens(t) \/ IsAuthGetTokensClear(t)

\* caller c resumes after `await this.refreshTokens()`
AuthResume(c) ==
    \/ FetchRefreshed(c) \/ FetchRetry(c)
    \/ AuthStateRefreshed(c) \/ IsAuthRefreshed(c)
    \/ RefreshTokensReturn(c)

NextAuth ==
    \/ \E c \in Callers :
          \/ CallFetch(c) \/ CallGetAuthState(c) \/ CallIsAuthenticated(c)
          \/ CallLogout(c) \/ CallRefreshTokens(c)
    \/ \E c \in Callers : AuthResume(c)
    \/ \E t \in Threads : AuthIO(t)
    \/ Tick

SpecAuth == InitAuth /\ [][NextAuth]_vars

(***************************************************************************)
(* The offline queue (offline.ts).                                         *)
(***************************************************************************)
MaxInitQueue == 3

\* Math.random().toString(36).substr(2, 9): two of its values
RandomSuffixes == {"r1", "r2"}

EmptyAsyncStorage == [queue |-> Null, trips |-> Null]

\* offline.ts:41-44
getQueue(store) == IF store.queue = Null THEN <<>> ELSE store.queue.json
\* AsyncStorage.setItem(OFFLINE_QUEUE, JSON.stringify(queue))
setQueue(store, queue) == [store EXCEPT !.queue = [json |-> queue]]

\* offline.ts:34-37: checkIsOnline resolves to the parsed queue, an array
checkIsOnline(store) == IF store.queue = Null THEN <<>> ELSE store.queue.json
\* what `if (isOnline)` and `if (!isOnline)` make of an array: every array of
\* JavaScript is truthy, the empty one included
Truthy(array) == Len(array) >= 0

\* offline.ts:49-53
newAction(action, t, r) ==
    [id |-> [time |-> t, rand |-> r], type |-> action.type, endpoint |-> action.endpoint,
     method |-> action.method, payload |-> action.payload, timestamp |-> t]

\* offline.ts:55
push(queue, action) == Append(queue, action)

\* offline.ts:63
RECURSIVE filterOut(_, _)
filterOut(queue, actionId) ==
    IF queue = <<>> THEN <<>>
    ELSE IF Head(queue).id # actionId
         THEN <<Head(queue)>> \o filterOut(Tail(queue), actionId)
         ELSE filterOut(Tail(queue), actionId)

CreateAction(trip) ==
    [type |-> "CREATE", endpoint |-> "/trips", method |-> "POST", payload |-> trip]

\* addToQueue returns: to a caller of its own, or to API.createTrip (api.ts:288-298)
AddToQueueEnd(rec) ==
    IF rec.op = "createTripQueued"
    THEN [rec EXCEPT !.pc = "done",
                     !.result = Return([trip |-> rec.trip, id |-> [local |-> now]])]
    ELSE [rec EXCEPT !.pc = "done", !.result = Return(Null)]

\* offline.ts:47-57
AddToQueueRead(c) ==
    /\ AtIO(c, "aq_get")
    /\ \E r \in RandomSuffixes :
          th' = [th EXCEPT ![c] =
                   [@ EXCEPT !.pc = "aq_set",
                             !.filtered = push(getQueue(astore), newAction(th[c].action, now, r))]]
    /\ UNCHANGED <<clock, calls, authVars, queueVars>>

\* offline.ts:57-59
AddToQueueWrite(c) ==
    /\ AtIO(c, "aq_set")
    /\ astore' = setQueue(astore, th[c].filtered)
    /\ added' = added \cup {th[c].action.payload}
    /\ th' = [th EXCEPT ![c] = AddToQueueEnd(@)]
    /\ UNCHANGED <<clock, calls, authVars, online, removed, acked, hook>>

\* the loop of syncQueue, from the last action of the queue to the first
SyncNextReversed(rec) ==
    IF rec.idx < Len(rec.queue)
    THEN [rec EXCEPT !.pc = "sq_fetch", !.idx = @ + 1,
                     !.attempts = Append(@, rec.queue[Len(rec.queue) - rec.idx].payload)]
    ELSE [rec EXCEPT !.pc = "done",
                     !.result = Return([synced |-> rec.synced, failed |-> rec.failed])]

\* offline.ts:85-87 and 105: the next action of the queue is sent, or the
\* counts are returned
SyncNext(rec) ==
    IF rec.idx < Len(rec.queue)
    THEN [rec EXCEPT !.pc = "sq_fetch", !.idx = @ + 1,
                     !.attempts = Append(@, rec.queue[rec.idx + 1].payload)]
    ELSE [rec EXCEPT !.pc = "done",
                     !.result = Return([synced |-> rec.synced, failed |-> rec.failed])]

\* removeFromQueue returns: to a caller of its own, or to syncQueue (offline.ts:96-98)
RemoveFromQueueEnd(rec) ==
    IF rec.op = "syncQueue"
    THEN SyncNext([rec EXCEPT !.synced = @ + 1, !.settled = @ + 1])
    ELSE [rec EXCEPT !.pc = "done", !.result = Return(Null)]

\* offline.ts:62-64
RemoveFromQueueRead(c) ==
    /\ AtIO(c, "rq_get")
    /\ th' = [th EXCEPT ![c] = [@ EXCEPT !.pc = "rq_set",
                                         !.filtered = filterOut(getQueue(astore), th[c].rid)]]
    /\ UNCHANGED <<clock, calls, authVars, queueVars>>

\* offline.ts:64-65
RemoveFromQueueWrite(c) ==
    /\ AtIO(c, "rq_set")
    /\ astore' = setQueue(astore, th[c].filtered)
    /\ removed' = removed \cup {th[c].rid}
    /\ th' = [th EXCEPT ![c] = RemoveFromQueueEnd(@)]
    /\ UNCHANGED <<clock, calls, authVars, online, added, acked, hook>>

\* offline.ts:70-74
SyncCheckOnline(c) ==
    /\ AtIO(c, "sq_online")
    /\ LET isOnline == checkIsOnline(astore)
       IN  th' = [th EXCEPT ![c] =
                    IF ~Truthy(isOnline)
                    THEN [@ EXCEPT !.pc = "done",
                                   !.result = Return([synced |-> 0, failed |-> 0])]
                    ELSE [@ EXCEPT !.pc = "sq_get", !.offlineAtCall = ~online]]
    /\ UNCHANGED <<clock, calls, authVars, queueVars>>

\* offline.ts:74-87
SyncGetQueue(c) ==
    /\ AtIO(c, "sq_get")
    /\ LET queue == getQueue(astore)
       IN  th' = [th EXCEPT ![c] =
                    IF Len(queue) = 0
                    THEN [@ EXCEPT !.pc = "done",
                                   !.result = Return([synced |-> 0, failed |-> 0])]
                    ELSE SyncNext([@ EXCEPT !.queue = queue])]
    /\ UNCHANGED <<clock, calls, authVars, queueVars>>

\* offline.ts:87-103: the request of the current action settles
SyncResponse(c) ==
    /\ AtIO(c, "sq_fetch")
    /\ \E out \in NetOutcomes(online) :
          LET action == th[c].queue[th[c].idx]
          IN  IF out.kind = "throw"
              THEN /\ th' = [th EXCEPT ![c] =
                               SyncNext([@ EXCEPT !.failed = @ + 1, !.settled = @ + 1,
                                                  !.outcomes = Append(@, "threw")])]
                   /\ UNCHANGED acked
              ELSE IF Ok(out.status)
              THEN /\ th' = [th EXCEPT ![c] =
                               [@ EXCEPT !.pc = "rq_get", !.rid = action.id,
                                         !.outcomes = Append(@, "ok")]]
                   /\ acked' = acked \cup {action.payload}
              ELSE /\ th' = [th EXCEPT ![c] =
                               SyncNext([@ EXCEPT !.settled = @ + 1,
                                                  !.outcomes = Append(@, "rejected")])]
                   /\ UNCHANGED acked
    /\ UNCHANGED <<clock, calls, authVars, online, astore, added, removed, hook>>

(***************************************************************************)
(* The callers of the offline queue, and the connectivity of the device.   *)
(***************************************************************************)
\* the trip of the call that is made now
NewTrip == [trip |-> MaxInitQueue + calls + 1]

CallAddToQueue(c) ==
    /\ CanCall(c)
    /\ th' = [th EXCEPT ![c] = [Begin(c, "addToQueue", "aq_get")
                                   EXCEPT !.action = CreateAction(NewTrip)]]
    /\ calls' = calls + 1
    /\ UNCHANGED <<clock, authVars, queueVars>>

\* a caller removes an action whose id getQueue() has shown it
CallRemoveFromQueue(c) ==
    /\ CanCall(c)
    /\ \E i \in 1..Len(getQueue(astore)) :
          th' = [th EXCEPT ![c] = [Begin(c, "removeFromQueue", "rq_get")
                                      EXCEPT !.rid = getQueue(astore)[i].id]]
    /\ calls' = calls + 1
    /\ UNCHANGED <<clock, authVars, queueVars>>

CallSyncQueue(c) ==
    /\ CanCall(c)
    /\ th' = [th EXCEPT ![c] = Begin(c, "syncQueue", "sq_online")]
    /\ calls' = calls + 1
    /\ UNCHANGED <<clock, authVars, queueVars>>

ConnectivityChange ==
    /\ online' = ~online
    /\ UNCHANGED <<clock, calls, authVars, th, astore, added, removed, acked, hook>>

\* the queue that earlier runs of the app have left in AsyncStorage
InitAction(i) == newAction(CreateAction([trip |-> i]), StartMs - 1000 + i, "r1")
InitQueues == {[i \in 1..k |-> InitAction(i)] : k \in 0..MaxInitQueue}
PayloadsOf(queue) == {queue[i].payload : i \in 1..Len(queue)}

InitQueue ==
    /\ now = StartMs
    /\ ticks = 0
    /\ calls = 0
    /\ secure = EmptyStore
    /\ refreshPromise = 0
    /\ promises = <<>>
    /\ pcalls = <<>>
    /\ pfound = <<>>
    /\ poutcome = <<>>
    /\ issued = 0
    /\ th = [t \in Threads |-> IF IsDr(t) THEN Off ELSE Fresh]
    /\ online \in BOOLEAN
    /\ \E q \in InitQueues :
          /\ astore = IF q = <<>> THEN EmptyAsyncStorage ELSE setQueue(EmptyAsyncStorage, q)
          /\ added = PayloadsOf(q)
    /\ removed = {}
    /\ acked = {}
    /\ hook = Mounted

QueueIO(c) ==
    \/ AddToQueueRead(c) \/ AddToQueueWrite(c)
    \/ RemoveFromQueueRead(c) \/ RemoveFromQueueWrite(c)
    \/ SyncCheckOnline(c) \/ SyncGetQueue(c) \/ SyncResponse(c)

NextQueue ==
    \/ \E c \in Callers :
          \/ CallAddToQueue(c) \/ CallRemoveFromQueue(c) \/ CallSyncQueue(c)
    \/ \E c \in Callers : QueueIO(c)
    \/ ConnectivityChange
    \/ Tick

SpecQueue == InitQueue /\ [][NextQueue]_vars

\* the executions made of addToQueue and syncQueue calls only
NextReplay ==
    \/ \E c \in Callers : CallAddToQueue(c) \/ CallSyncQueue(c)
    \/ \E c \in Callers : QueueIO(c)
    \/ ConnectivityChange
    \/ Tick

SpecReplay == InitQueue /\ [][NextReplay]_vars

(***************************************************************************)
(* The trips of api.ts.  The file holds two versions of the API object:    *)
(* createTrip and getTrips of the first (api.ts:91-196) send the session's *)
(* token, createTrip of the second (api.ts:267-300) falls back on the      *)
(* offline queue.                                                          *)
(***************************************************************************)
NoDescription == [str |-> ""]
\* the bodies the server answers GET /trips with
ServerTrips ==
    {JsArray(<<>>), JsArray(<<[id |-> "t1", description |-> Null]>>), JsObject, InvalidJson}
\* the cache that earlier runs of the app have left
InitCaches ==
    {Null, [data |-> JsArray(<<[id |-> "t0", description |-> Null]>>), cachedAt |-> StartMs - 1000]}

\* offline.ts:112-117
cacheTrips(store, trips, t) == [store EXCEPT !.trips = [data |-> trips, cachedAt |-> t]]
\* offline.ts:120-127
getCachedTrips(store) == IF store.trips # Null THEN store.trips.data ELSE Null

\* api.ts:127: description: trip.description ?? ""
WithDescription(trips) ==
    [i \in 1..Len(trips) |->
        [trips[i] EXCEPT !.description = IF @ = Null THEN NoDescription ELSE @]]

\* getTrips returns: to a caller of its own, or to createTrip (api.ts:123-124)
GetTripsEnd(rec, trips) ==
    IF rec.op = "getTrips"
    THEN [rec EXCEPT !.pc = "done", !.result = Return(trips)]
    ELSE [rec EXCEPT !.pc = "ct_cache", !.trips = trips]

\* api.ts:152-156 and 182-184
GetTripsCheckOnline(c) ==
    /\ AtIO(c, "tr_online")
    /\ LET isOnline == checkIsOnline(astore)
       IN  th' = [th EXCEPT ![c] =
                    IF Truthy(isOnline)
                    THEN [@ EXCEPT !.pc = "f_getTokens"]
                    ELSE [@ EXCEPT !.pc = "trips_cached"]]
    /\ UNCHANGED <<clock, calls, authVars, queueVars>>

\* getTrips throws: to a caller of its own, or into the catch block of
\* createTrip (api.ts:129-131)
GetTripsThrow(rec, msg) ==
    IF rec.op = "getTrips"
    THEN [rec EXCEPT !.pc = "done", !.result = Throw(msg)]
    ELSE [rec EXCEPT !.pc = "done",
                     !.result = Throw("Erreur lors de la mise à jour du cache des voyages")]

\* api.ts:162: response.json() settles; a body that does not parse throws
\* into the catch block
GetTripsJson(c) ==
    /\ AtIO(c, "trips_json")
    /\ \E trips \in ServerTrips :
          th' = [th EXCEPT ![c] =
                    IF trips = InvalidJson
                    THEN [@ EXCEPT !.pc = "trips_cached"]
                    ELSE [@ EXCEPT !.pc = "trips_cache", !.data = trips]]
    /\ UNCHANGED <<clock, calls, authVars, queueVars>>

\* api.ts:164-165
GetTripsCache(c) ==
    /\ AtIO(c, "trips_cache")
    /\ astore' = cacheTrips(astore, th[c].data, now)
    /\ th' = [th EXCEPT ![c] =
                GetTripsEnd(@, IF isArray(th[c].data) THEN th[c].data.items ELSE <<>>)]
    /\ UNCHANGED <<clock, calls, authVars, online, added, removed, acked, hook>>

\* api.ts:166-181 and 182-196: (cached || []).map(...)
GetTripsCached(c) ==
    /\ AtIO(c, "trips_cached")
    /\ LET cached == getCachedTrips(astore)
       IN  th' = [th EXCEPT ![c] =
                    IF cached = Null THEN GetTripsEnd(@, <<>>)
                    ELSE IF isArray(cached) THEN GetTripsEnd(@, WithDescription(cached.items))
                    ELSE GetTripsThrow(@, "cached.map is not a function")]
    /\ UNCHANGED <<clock, calls, authVars, queueVars>>

\* api.ts:92-98
CreateTripCheckOnline(c) ==
    /\ AtIO(c, "ct_online")
    /\ LET isOnline == checkIsOnline(astore)
       IN  th' = [th EXCEPT ![c] =
                    IF ~Truthy(isOnline)
                    THEN [@ EXCEPT !.pc = "done",
                                   !.result = Throw("Création impossible hors ligne")]
                    ELSE [@ EXCEPT !.pc = "ct_getTokens"]]
    /\ UNCHANGED <<clock, calls, authVars, queueVars>>

\* api.ts:99-110
CreateTripAfterGet(rec, tokens) ==
    IF tokens = Null
    THEN [rec EXCEPT !.pc = "done", !.result = Throw("Utilisateur non authentifié")]
    ELSE [rec EXCEPT !.pc = "ct_post", !.tokens = tokens, !.bearer1 = tokens.accessToken]

CreateTripGetTokens(c) ==
    /\ AtIO(c, "ct_getTokens")
    /\ th' = [th EXCEPT ![c] =
                IF IsMock(secure)
                THEN [@ EXCEPT !.pc = "ct_gtClear"]
                ELSE CreateTripAfterGet(@, ReadTokens(secure))]
    /\ UNCHANGED <<clock, calls, authVars, queueVars>>

CreateTripGetTokensClear(c) ==
    /\ AtIO(c, "ct_gtClear")
    /\ secure' = clearTokens(secure)
    /\ th' = [th EXCEPT ![c] = CreateTripAfterGet(@, Null)]
    /\ UNCHANGED <<clock, calls, refreshVars, issued, queueVars>>

\* api.ts:103-118: the POST settles
CreateTripResponse(c) ==
    /\ AtIO(c, "ct_post")
    /\ \E out \in NetOutcomes(online) :
          th' = [th EXCEPT ![c] =
                   IF out.kind = "throw"
                   THEN [@ EXCEPT !.pc = "done", !.post = out, !.result = out]
                   ELSE IF ~Ok(out.status)
                   THEN [@ EXCEPT !.pc = "ct_error", !.post = out]
                   ELSE [@ EXCEPT !.pc = "ct_json", !.post = out]]
    /\ UNCHANGED <<clock, calls, authVars, queueVars>>

\* api.ts:113-116
CreateTripError(c) ==
    /\ AtIO(c, "ct_error")
    /\ th' = [th EXCEPT ![c] = [@ EXCEPT !.pc = "done",
                                         !.result = Throw("Erreur création voyage")]]
    /\ UNCHANGED <<clock, calls, authVars, queueVars>>

\* api.ts:118-121: the created trip is read, getTrips() starts
CreateTripJson(c) ==
    /\ AtIO(c, "ct_json")
    /\ th' = [th EXCEPT ![c] = [@ EXCEPT !.pc = "tr_online"]]
    /\ UNCHANGED <<clock, calls, authVars, queueVars>>

\* api.ts:122-132
CreateTripCache(c) ==
    /\ AtIO(c, "ct_cache")
    /\ astore' = cacheTrips(astore, JsArray(WithDescription(th[c].trips)), now)
    /\ th' = [th EXCEPT ![c] = [@ EXCEPT !.pc = "done",
                                         !.result = Return([trip |-> th[c].trip,
                                                            id |-> [server |-> TRUE]])]]
    /\ UNCHANGED <<clock, calls, authVars, online, added, removed, acked, hook>>

\* api.ts:267-299, to the await of the fetch or to the one inside addToQueue
CreateTripQueuedCheckOnline(c) ==
    /\ AtIO(c, "cq_online")
    /\ LET isOnline == checkIsOnline(astore)
       IN  th' = [th EXCEPT ![c] =
                    IF Truthy(isOnline)
                    THEN [@ EXCEPT !.pc = "cq_post"]
                    ELSE [@ EXCEPT !.pc = "aq_get", !.action = CreateAction(th[c].trip)]]
    /\ UNCHANGED <<clock, calls, authVars, queueVars>>

\* api.ts:273-285
CreateTripQueuedResponse(c) ==
    /\ AtIO(c, "cq_post")
    /\ \E out \in NetOutcomes(online) :
          th' = [th EXCEPT ![c] =
                   IF out.kind = "throw"
                   THEN [@ EXCEPT !.pc = "done", !.post = out, !.result = out]
                   ELSE IF ~Ok(out.status)
                   THEN [@ EXCEPT !.pc = "done", !.post = out,
                                  !.result = Throw("Erreur création voyage")]
                   ELSE [@ EXCEPT !.pc = "done", !.post = out,
                                  !.result = Return([trip |-> th[c].trip,
                                                     id |-> [server |-> TRUE]])]]
    /\ UNCHANGED <<clock, calls, authVars, queueVars>>

\* the calls of the trips API in one behaviour
MaxTripCalls == 1
CanCallTrips(c) == Idle(c) /\ calls < MaxTripCalls

CallCreateTrip(c) ==
    /\ CanCallTrips(c)
    /\ th' = [th EXCEPT ![c] = [Begin(c, "createTrip", "ct_online")
                                   EXCEPT !.trip = NewTrip, !.offlineAtCall = ~online]]
    /\ calls' = calls + 1
    /\ UNCHANGED <<clock, authVars, queueVars>>

CallCreateTripQueued(c) ==
    /\ CanCallTrips(c)
    /\ th' = [th EXCEPT ![c] = [Begin(c, "createTripQueued", "cq_online")
                                   EXCEPT !.trip = NewTrip, !.offlineAtCall = ~online]]
    /\ calls' = calls + 1
    /\ UNCHANGED <<clock, authVars, queueVars>>

CallGetTrips(c) ==
    /\ CanCallTrips(c)
    /\ th' = [th EXCEPT ![c] = Begin(c, "getTrips", "tr_online")]
    /\ calls' = calls + 1
    /\ UNCHANGED <<clock, authVars, queueVars>>

InitTrips ==
    /\ now = StartMs
    /\ ticks = 0
    /\ calls = 0
    /\ secure \in InitStores
    /\ refreshPromise = 0
    /\ promises = <<>>
    /\ pcalls = <<>>
    /\ pfound = <<>>
    /\ poutcome = <<>>
    /\ issued = 0
    /\ th = [t \in Threads |-> IF IsDr(t) THEN Off ELSE Fresh]
    /\ online \in BOOLEAN
    /\ \E q \in {<<>>, <<InitAction(1)>>}, cache \in InitCaches :
          /\ astore = [queue |-> IF q = <<>> THEN Null ELSE [json |-> q], trips |-> cache]
          /\ added = PayloadsOf(q)
    /\ removed = {}
    /\ acked = {}
    /\ hook = Mounted

TripsIO(c) ==
    \/ GetTripsCheckOnline(c) \/ GetTripsJson(c) \/ GetTripsCache(c) \/ GetTripsCached(c)
    \/ CreateTripCheckOnline(c) \/ CreateTripGetTokens(c) \/ CreateTripGetTokensClear(c)
    \/ CreateTripResponse(c) \/ CreateTripError(c) \/ CreateTripJson(c)
    \/ CreateTripCache(c)
    \/ CreateTripQueuedCheckOnline(c) \/ CreateTripQueuedResponse(c)

\* what auth.fetch, called by getTrips, does: the session is never a mock
\* one once a refresh has started, so _doRefresh and logout read it in one step
TripsAuthIO(t) ==
    \/ FetchGetTokens(t) \/ FetchGetTokensClear(t)
    \/ FetchResponse(t) \/ FetchRetryResponse(t)
    \/ ClearTokensStep(t) \/ ClearUserStep(t)
    \/ DoRefreshGetTokens(t) \/ DoRefreshResponse(t) \/ DoRefreshSave(t)
    \/ LogoutGetTokens(t) \/ LogoutResponse(t) \/ LogoutClear(t)

NextTrips ==
    \/ \E c \in Callers :
          \/ CallCreateTrip(c) \/ CallCreateTripQueued(c) \/ CallGetTrips(c)
    \/ \E c \in Callers : TripsIO(c)
    \/ \E c \in Callers : FetchRefreshed(c) \/ FetchRetry(c)
    \/ \E t \in Threads : TripsAuthIO(t)
    \/ ConnectivityChange
    \/ Tick

SpecTrips == InitTrips /\ [][NextTrips]_vars

(***************************************************************************)
(* isTokenExpired applied to tokens of every shape, at instants around     *)
(* the margin.                                                             *)
(***************************************************************************)
\* the exp claims, in seconds, around StartMs + marginMillis
ExpClaims ==
    {JsNumber((StartMs \div 1000) + off) : off \in {30, 59, 60, 61, 120}}
        \cup {JsNumber(0), JsNull, JsBoolean(TRUE), JsString(<<>>),
              JsString(Digits((StartMs \div 1000) + 120)),
              JsString(<<10, 11, 12>>)}
ExpiryTokens ==
    {Null, MockToken, Jwt(0, [sub |-> "u0"])} \cup {Jwt(0, [exp |-> e]) : e \in ExpClaims}

CallIsTokenExpired(c) ==
    /\ CanCall(c)
    /\ \E token \in ExpiryTokens :
          th' = [th EXCEPT ![c] =
                   [Fresh EXCEPT !.op = "isTokenExpired", !.pc = "done",
                                 !.input = token, !.at = now,
                                 !.result = Return(isTokenExpired(token, now))]]
    /\ calls' = calls + 1
    /\ UNCHANGED <<clock, authVars, queueVars>>

InitExpiry ==
    /\ now \in {StartMs - 1, StartMs, StartMs + 1}
    /\ ticks = 0
    /\ calls = 0
    /\ secure = EmptyStore
    /\ refreshPromise = 0
    /\ promises = <<>>
    /\ pcalls = <<>>
    /\ pfound = <<>>
    /\ poutcome = <<>>
    /\ issued = 0
    /\ th = [t \in Threads |-> IF IsDr(t) THEN Off ELSE Fresh]
    /\ online = TRUE
    /\ astore = [queue |-> Null, trips |-> Null]
    /\ added = {}
    /\ removed = {}
    /\ acked = {}
    /\ hook = Mounted

NextExpiry ==
    \/ \E c \in Callers : CallIsTokenExpired(c)
    \/ Tick

SpecExpiry == InitExpiry /\ [][NextExpiry]_vars

(***************************************************************************)
(* API.getTrips (api.ts:151-196) called several times, one call after the  *)
(* other, with the trip cache of offline.ts:112-127.                       *)
(***************************************************************************)
\* the calls and the refreshes they started have all ended
NothingRunning == \A t \in Threads : th[t].pc \in {"idle", "done", "off"}

CallGetTripsAlone(c) ==
    /\ calls < MaxCalls
    /\ NothingRunning
    /\ th' = [th EXCEPT ![c] = [Begin(c, "getTrips", "tr_online")
                                   EXCEPT !.seq = calls + 1, !.before = astore.trips]]
    /\ calls' = calls + 1
    /\ UNCHANGED <<clock, authVars, queueVars>>

\* the second getTrips of the file (api.ts:301-325), which calls fetch itself
CallGetTripsPlain(c) ==
    /\ calls < MaxCalls
    /\ NothingRunning
    /\ th' = [th EXCEPT ![c] = [Begin(c, "getTripsPlain", "tp_online")
                                   EXCEPT !.seq = calls + 1, !.before = astore.trips]]
    /\ calls' = calls + 1
    /\ UNCHANGED <<clock, authVars, queueVars>>

\* api.ts:302-304 and 319-323
GetTripsPlainCheckOnline(c) ==
    /\ AtIO(c, "tp_online")
    /\ LET isOnline == checkIsOnline(astore)
       IN  th' = [th EXCEPT ![c] =
                    IF Truthy(isOnline)
                    THEN [@ EXCEPT !.pc = "tp_fetch"]
                    ELSE [@ EXCEPT !.pc = "tp_cached"]]
    /\ UNCHANGED <<clock, calls, authVars, queueVars>>

\* api.ts:307: the fetch settles; response.ok is not looked at
GetTripsPlainResponse(c) ==
    /\ AtIO(c, "tp_fetch")
    /\ \E out \in NetOutcomes(online) :
          th' = [th EXCEPT ![c] =
                    IF out.kind = "throw"
                    THEN [@ EXCEPT !.pc = "tp_cached"]
                    ELSE [@ EXCEPT !.pc = "tp_json", !.response = out]]
    /\ UNCHANGED <<clock, calls, authVars, queueVars>>

\* the bodies of a non-2xx answer of GET /trips
TripErrorBodies == {JsObject, InvalidJson}

\* api.ts:308
GetTripsPlainJson(c) ==
    /\ AtIO(c, "tp_json")
    /\ \E trips \in IF Ok(th[c].response.status) THEN ServerTrips ELSE TripErrorBodies :
          th' = [th EXCEPT ![c] =
                    IF trips = InvalidJson
                    THEN [@ EXCEPT !.pc = "tp_cached"]
                    ELSE [@ EXCEPT !.pc = "tp_cache", !.data = trips]]
    /\ UNCHANGED <<clock, calls, authVars, queueVars>>

\* api.ts:310-312
GetTripsPlainCache(c) ==
    /\ AtIO(c, "tp_cache")
    /\ astore' = cacheTrips(astore, th[c].data, now)
    /\ th' = [th EXCEPT ![c] = [@ EXCEPT !.pc = "done", !.result = Return(th[c].data)]]
    /\ UNCHANGED <<clock, calls, authVars, online, added, removed, acked, hook>>

\* api.ts:313-318 and 319-323: cached || []
GetTripsPlainCached(c) ==
    /\ AtIO(c, "tp_cached")
    /\ LET cached == getCachedTrips(astore)
       IN  th' = [th EXCEPT ![c] =
                    [@ EXCEPT !.pc = "done",
                              !.result = Return(IF cached = Null THEN JsArray(<<>>)
                                                ELSE cached)]]
    /\ UNCHANGED <<clock, calls, authVars, queueVars>>

InitTripList ==
    /\ now = StartMs
    /\ ticks = 0
    /\ calls = 0
    /\ secure \in InitStores
    /\ refreshPromise = 0
    /\ promises = <<>>
    /\ pcalls = <<>>
    /\ pfound = <<>>
    /\ poutcome = <<>>
    /\ issued = 0
    /\ th = [t \in Threads |-> IF IsDr(t) THEN Off ELSE Fresh]
    /\ online \in BOOLEAN
    /\ \E cache \in InitCaches : astore = [queue |-> Null, trips |-> cache]
    /\ added = {}
    /\ removed = {}
    /\ acked = {}
    /\ hook = Mounted

NextTripList ==
    \/ \E c \in Callers : CallGetTripsAlone(c) \/ CallGetTripsPlain(c)
    \/ \E c \in Callers :
          \/ GetTripsCheckOnline(c) \/ GetTripsJson(c)
          \/ GetTripsCache(c) \/ GetTripsCached(c)
    \/ \E c \in Callers :
          \/ GetTripsPlainCheckOnline(c) \/ GetTripsPlainResponse(c)
          \/ GetTripsPlainJson(c) \/ GetTripsPlainCache(c) \/ GetTripsPlainCached(c)
    \/ \E c \in Callers : FetchRefreshed(c) \/ FetchRetry(c)
    \/ \E t \in Threads : TripsAuthIO(t)
    \/ ConnectivityChange
    \/ Tick

SpecTripList == InitTripList /\ [][NextTripList]_vars

(***************************************************************************)
(* logout (auth.ts:267-282) called several times, one call after the other.*)
(***************************************************************************)
CallLogoutAlone(c) ==
    /\ calls < MaxCalls
    /\ NothingRunning
    /\ th' = [th EXCEPT ![c] = [Begin(c, "logout", "lo_getTokens")
                                   EXCEPT !.seq = calls + 1, !.before = secure]]
    /\ calls' = calls + 1
    /\ UNCHANGED <<clock, authVars, queueVars>>

NextLogout ==
    \/ \E c \in Callers : CallLogoutAlone(c)
    \/ \E c \in Callers :
          \/ LogoutGetTokens(c) \/ LogoutGetTokensClear(c)
          \/ LogoutResponse(c) \/ LogoutClear(c)
    \/ ConnectivityChange
    \/ Tick

SpecLogout == InitAuth /\ [][NextLogout]_vars

(***************************************************************************)
(* addToQueue (offline.ts:46-59) and removeFromQueue (offline.ts:61-65)    *)
(* called one after the other.                                             *)
(***************************************************************************)
MaxQueueCalls == 3

\* an id that no operation has
UnknownId == [time |-> 0, rand |-> "r1"]

CallAddToQueueAlone(c) ==
    /\ calls < MaxQueueCalls
    /\ NothingRunning
    /\ th' = [th EXCEPT ![c] = [Begin(c, "addToQueue", "aq_get")
                                   EXCEPT !.action = CreateAction(NewTrip),
                                          !.seq = calls + 1]]
    /\ calls' = calls + 1
    /\ UNCHANGED <<clock, authVars, queueVars>>

CallRemoveFromQueueAlone(c) ==
    /\ calls < MaxQueueCalls
    /\ NothingRunning
    /\ \E actionId \in {getQueue(astore)[i].id : i \in 1..Len(getQueue(astore))}
                          \cup {UnknownId} :
          th' = [th EXCEPT ![c] = [Begin(c, "removeFromQueue", "rq_get")
                                      EXCEPT !.rid = actionId, !.seq = calls + 1,
                                             !.before = [queue |-> getQueue(astore)]]]
    /\ calls' = calls + 1
    /\ UNCHANGED <<clock, authVars, queueVars>>

NextRemove ==
    \/ \E c \in Callers : CallAddToQueueAlone(c) \/ CallRemoveFromQueueAlone(c)
    \/ \E c \in Callers :
          \/ AddToQueueRead(c) \/ AddToQueueWrite(c)
          \/ RemoveFromQueueRead(c) \/ RemoveFromQueueWrite(c)
    \/ Tick

SpecRemove == InitQueue /\ [][NextRemove]_vars

(***************************************************************************)
(* saveTokens (auth.ts:97-103) and getTokens (auth.ts:104-136) called one  *)
(* after the other, over every Credential of a small set.                  *)
(***************************************************************************)
Credentials ==
    [accessToken : {ValidAccess, ExpiredAccess, MockToken},
     refreshToken : {RefreshTok(0), RefreshTok(1)},
     expiresAt : {0, 9, StartMs, StartMs + TickMs + 1}]

\* a call made when no other call is running
CanCallAlone(c) == CanCall(c) /\ \A d \in Callers : Idle(d)

CallSaveTokens(c) ==
    /\ CanCallAlone(c)
    /\ \E tokens \in Credentials :
          th' = [th EXCEPT ![c] = [Begin(c, "saveTokens", "st_set")
                                      EXCEPT !.input = tokens, !.seq = calls + 1]]
    /\ calls' = calls + 1
    /\ UNCHANGED <<clock, authVars, queueVars>>

SaveTokensSet(c) ==
    /\ AtIO(c, "st_set")
    /\ secure' = saveTokens(secure, th[c].input)
    /\ th' = [th EXCEPT ![c] = [@ EXCEPT !.pc = "done", !.result = Return(Null)]]
    /\ UNCHANGED <<clock, calls, refreshVars, issued, queueVars>>

CallGetTokens(c) ==
    /\ CanCallAlone(c)
    /\ th' = [th EXCEPT ![c] = [Begin(c, "getTokens", "gt_get") EXCEPT !.seq = calls + 1]]
    /\ calls' = calls + 1
    /\ UNCHANGED <<clock, authVars, queueVars>>

GetTokensGet(c) ==
    /\ AtIO(c, "gt_get")
    /\ th' = [th EXCEPT ![c] =
                IF IsMock(secure)
                THEN [@ EXCEPT !.pc = "gt_clear"]
                ELSE [@ EXCEPT !.pc = "done", !.result = Return(ReadTokens(secure))]]
    /\ UNCHANGED <<clock, calls, authVars, queueVars>>

GetTokensClear(c) ==
    /\ AtIO(c, "gt_clear")
    /\ secure' = clearTokens(secure)
    /\ th' = [th EXCEPT ![c] = [@ EXCEPT !.pc = "done", !.result = Return(Null)]]
    /\ UNCHANGED <<clock, calls, refreshVars, issued, queueVars>>

NextRoundTrip ==
    \/ \E c \in Callers : CallSaveTokens(c) \/ CallGetTokens(c)
    \/ \E c \in Callers : SaveTokensSet(c) \/ GetTokensGet(c) \/ GetTokensClear(c)
    \/ Tick

SpecRoundTrip == InitAuth /\ [][NextRoundTrip]_vars

(***************************************************************************)
(* login (auth.ts:163-214) and register (auth.ts:215-265).                 *)
(***************************************************************************)
LoginUser == [id |-> "u1", email |-> "u1@example.org", name |-> "V", roles |-> {}]

\* the bodies of a 2xx answer of /auth/login and /auth/register
LoginBodies(n, t) ==
    { [accessToken |-> NewAccess(n, t), refreshToken |-> RefreshTok(n),
       expiresIn |-> 60, user |-> LoginUser],
      [accessToken |-> NewAccess(n, t), user |-> LoginUser],
      [accessToken |-> NewAccess(n, t), expiresIn |-> 0, user |-> LoginUser],
      [accessToken |-> NewAccess(n, t), refreshToken |-> RefreshTok(n), expiresIn |-> 60],
      [user |-> LoginUser],
      InvalidJson }

\* the bodies of a non-2xx answer
ErrorBodies ==
    { [error |-> "Invalid credentials"], [message |-> "Bad request"],
      [error |-> "Invalid credentials", message |-> "Bad request"],
      [code |-> "E"], InvalidJson }

\* the message of the TypeError of a failed fetch, which depends on the platform
NetworkMessages == {NetworkError.error, "Failed to fetch"}

\* auth.ts:181 and auth.ts:229: errorData.error || errorData.message || generic
errorMessage(opname, errorData, status) ==
    IF "error" \in DOMAIN errorData THEN errorData.error
    ELSE IF "message" \in DOMAIN errorData THEN errorData.message
    ELSE IF opname = "login" THEN "Login failed (" \o ToString(status) \o ")"
    ELSE "Registration failed (" \o ToString(status) \o ")"

\* auth.ts:192-196 and auth.ts:239-243
loginTokens(data, t) ==
    [accessToken |-> data.accessToken,
     refreshToken |-> IF "refreshToken" \in DOMAIN data THEN data.refreshToken
                      ELSE data.accessToken,
     expiresAt |-> t + (IF "expiresIn" \in DOMAIN data /\ data.expiresIn # 0
                        THEN data.expiresIn ELSE defaultExpiresIn) * 1000]

\* a test of the access token alone
InvalidResponseTokenOnly(data) == ~("accessToken" \in DOMAIN data)

\* auth.ts:188 and auth.ts:234: !data.accessToken || !data.user
InvalidResponse(data) == ~("accessToken" \in DOMAIN data) \/ ~("user" \in DOMAIN data)

CallLogin(c) ==
    /\ CanCallAlone(c)
    /\ th' = [th EXCEPT ![c] = [Begin(c, "login", "lg_fetch")
                                   EXCEPT !.at = now, !.seq = calls + 1, !.before = secure]]
    /\ calls' = calls + 1
    /\ UNCHANGED <<clock, authVars, queueVars>>

CallRegister(c) ==
    /\ CanCallAlone(c)
    /\ th' = [th EXCEPT ![c] = [Begin(c, "register", "lg_fetch")
                                   EXCEPT !.at = now, !.seq = calls + 1, !.before = secure]]
    /\ calls' = calls + 1
    /\ UNCHANGED <<clock, authVars, queueVars>>

\* the catch block: login rethrows every Error (auth.ts:208-212), register
\* words a TypeError about fetch anew (auth.ts:255-262)
Caught(opname, msg) ==
    IF opname = "register" /\ msg = "Failed to fetch"
    THEN Throw("Cannot connect to server. Make sure the backend is running.")
    ELSE Throw(msg)

LoginResponse(c) ==
    /\ AtIO(c, "lg_fetch")
    /\ \E out \in NetOutcomes(online) :
          IF out.kind = "throw"
          THEN \E msg \in NetworkMessages :
                  th' = [th EXCEPT ![c] = [@ EXCEPT !.pc = "done",
                                                    !.result = Caught(th[c].op, msg)]]
          ELSE th' = [th EXCEPT ![c] = [@ EXCEPT !.response = out,
                                                 !.pc = IF Ok(out.status) THEN "lg_json"
                                                        ELSE "lg_errorJson"]]
    /\ UNCHANGED <<clock, calls, authVars, queueVars>>

\* auth.ts:176-184 and auth.ts:225-231
LoginErrorJson(c) ==
    /\ AtIO(c, "lg_errorJson")
    /\ \E errorData \in ErrorBodies :
          th' = [th EXCEPT ![c] =
                    [@ EXCEPT !.pc = "done", !.data = errorData,
                              !.result = Caught(th[c].op,
                                                errorMessage(th[c].op, errorData,
                                                             th[c].response.status))]]
    /\ UNCHANGED <<clock, calls, authVars, queueVars>>

\* auth.ts:186-200 and auth.ts:233-246
LoginJson(c) ==
    /\ AtIO(c, "lg_json")
    /\ \E data \in LoginBodies(issued + 1, now) :
          th' = [th EXCEPT ![c] =
                    IF data = InvalidJson
                    THEN [@ EXCEPT !.pc = "done", !.data = data,
                                   !.result = Caught(th[c].op, "JSON Parse error")]
                    ELSE IF InvalidResponse(data)
                    THEN [@ EXCEPT !.pc = "done", !.data = data,
                                   !.result = Caught(th[c].op, "Invalid response from server")]
                    ELSE [@ EXCEPT !.pc = "lg_saveTokens", !.data = data,
                                   !.tokens = loginTokens(data, now),
                                   !.user = IF "user" \in DOMAIN data THEN data.user ELSE Null]]
    /\ issued' = issued + 1
    /\ UNCHANGED <<clock, calls, secure, refreshVars, queueVars>>

LoginSaveTokens(c) ==
    /\ AtIO(c, "lg_saveTokens")
    /\ secure' = saveTokens(secure, th[c].tokens)
    /\ th' = [th EXCEPT ![c] = [@ EXCEPT !.pc = "lg_saveUser"]]
    /\ UNCHANGED <<clock, calls, refreshVars, issued, queueVars>>

LoginSaveUser(c) ==
    /\ AtIO(c, "lg_saveUser")
    /\ secure' = saveUser(secure, th[c].user)
    /\ th' = [th EXCEPT ![c] =
                [@ EXCEPT !.pc = "done",
                          !.result = Return([user |-> th[c].user, tokens |-> th[c].tokens])]]
    /\ UNCHANGED <<clock, calls, refreshVars, issued, queueVars>>

NextLogin ==
    \/ \E c \in Callers : CallLogin(c) \/ CallRegister(c)
    \/ \E c \in Callers :
          \/ LoginResponse(c) \/ LoginErrorJson(c) \/ LoginJson(c)
          \/ LoginSaveTokens(c) \/ LoginSaveUser(c)
    \/ Tick

SpecLogin == InitAuth /\ [][NextLogin]_vars

(***************************************************************************)
(* checkIsOnline (offline.ts:34-37) called on its own, while operations    *)
(* are enqueued and the connectivity changes.                              *)
(***************************************************************************)
CallCheckIsOnline(c) ==
    /\ CanCall(c)
    /\ th' = [th EXCEPT ![c] = Begin(c, "checkIsOnline", "co_get")]
    /\ calls' = calls + 1
    /\ UNCHANGED <<clock, authVars, queueVars>>

CheckIsOnlineGet(c) ==
    /\ AtIO(c, "co_get")
    /\ th' = [th EXCEPT ![c] = [@ EXCEPT !.pc = "done",
                                         !.offlineAtCall = ~online,
                                         !.result = Return(JsArray(checkIsOnline(astore)))]]
    /\ UNCHANGED <<clock, calls, authVars, queueVars>>

NextOnline ==
    \/ \E c \in Callers : CallCheckIsOnline(c) \/ CallAddToQueue(c)
    \/ \E c \in Callers : CheckIsOnlineGet(c) \/ AddToQueueRead(c) \/ AddToQueueWrite(c)
    \/ ConnectivityChange
    \/ Tick

SpecOnline == InitQueue /\ [][NextOnline]_vars

(***************************************************************************)
(* Properties of the session manager.                                      *)
(***************************************************************************)
AwaitLabels == {"rt_await", "f_await1", "f_await2", "as_await", "ia_await"}
\* c is inside refreshTokens(), awaiting a promise
Waiting(c) == th[c].pc \in AwaitLabels
\* c has received the value of the promise th[c].awaiting, in th[c].refreshed
Got(c) == th[c].awaiting # 0 /\ ~Waiting(c)
\* the requests to /auth/refresh that are outstanding
RefreshRequests == {t \in Threads : th[t].pc = "dr_fetch"}

\* C1: in every reachable state at most one request to the refresh endpoint
\* is outstanding, whatever the callers of refreshTokens, fetch, getAuthState
\* and isAuthenticated do.
C1_OneRefreshOutstanding == Cardinality(RefreshRequests) <= 1

\* a refresh request is outstanding and a second caller has joined it
C1_Witness ==
    \E c1, c2 \in Callers :
        /\ c1 # c2
        /\ th[DrOf(c1)].pc = "dr_fetch"
        /\ Waiting(c1) /\ Waiting(c2)
        /\ th[c2].op \in {"fetch", "getAuthState", "isAuthenticated"}

\* C2 as stated: callers that received the value of one refresh, two or more,
\* caused exactly one request to the refresh endpoint and received the same value.
C2_ExactlyOneRequest ==
    \A c1, c2 \in Callers :
        (c1 # c2 /\ Got(c1) /\ Got(c2) /\ th[c1].awaiting = th[c2].awaiting)
            => /\ pcalls[th[c1].awaiting] = 1
               /\ th[c1].refreshed = th[c2].refreshed

\* C2, amended: calls of refreshTokens() made while a refresh is in flight
\* await its promise, so that one promise at most is in flight; a
\* promise causes at most one request to the refresh endpoint, exactly one
\* when _doRefresh() found a stored Credential and none when it found none;
\* and the callers of one promise receive the same value.
C2_SingleFlight ==
    /\ \A c1, c2 \in Callers :
          (Waiting(c1) /\ ~Settled(c1) /\ Waiting(c2) /\ ~Settled(c2))
              => th[c1].awaiting = th[c2].awaiting
    /\ \A p \in DOMAIN promises :
          /\ pcalls[p] <= 1
          /\ promises[p] # Pending =>
                /\ pfound[p] = "yes" => pcalls[p] = 1
                /\ pfound[p] = "no" => pcalls[p] = 0
                /\ promises[p] # Null => pcalls[p] = 1
    /\ \A c1, c2 \in Callers :
          (Got(c1) /\ Got(c2) /\ th[c1].awaiting = th[c2].awaiting)
              => th[c1].refreshed = th[c2].refreshed

\* two callers of refreshTokens() have received the credential of one request
C2_Witness ==
    \E c1, c2 \in Callers :
        /\ c1 # c2
        /\ th[c1].op = "refreshTokens" /\ th[c2].op = "refreshTokens"
        /\ th[c1].pc = "done" /\ th[c2].pc = "done"
        /\ th[c1].awaiting = th[c2].awaiting
        /\ pcalls[th[c1].awaiting] = 1
        /\ th[c1].refreshed # Null
        /\ th[c1].refreshed = th[c2].refreshed

\* C3: a call of auth.fetch whose first response is a 401 calls refreshTokens()
\* once; given a credential it sends the request once more, with the refreshed
\* access token, and returns that second response whatever its status; given
\* null it fails with 'Session expired'.  No call sends more than two requests.
C3_RetryOnce ==
    \A c \in Callers :
        th[c].op = "fetch" =>
            /\ th[c].nreq <= 2
            /\ th[c].nrefresh401 <= 1
            /\ (th[c].pc = "done" /\ th[c].first # Null /\ th[c].first.status = 401) =>
                  /\ th[c].nrefresh401 = 1
                  /\ IF th[c].refreshed # Null
                     THEN /\ th[c].nreq = 2
                          /\ th[c].bearer2 = th[c].refreshed.accessToken
                          /\ th[c].result.kind = "return" =>
                                /\ th[c].result.value = th[c].second
                                /\ th[c].second.req = 2
                     ELSE /\ th[c].nreq = 1
                          /\ th[c].result = Throw("Session expired")

\* a call whose two requests were both answered 401 has returned the second 401
C3_Witness ==
    \E c \in Callers :
        /\ th[c].op = "fetch" /\ th[c].pc = "done"
        /\ th[c].first # Null /\ th[c].first.status = 401
        /\ th[c].second # Null /\ th[c].second.status = 401
        /\ th[c].nreq = 2
        /\ th[c].bearer2 # th[c].bearer1
        /\ th[c].result = Return(th[c].second)

\* what getTokens() would return
GetTokensResult(store) == IF IsMock(store) THEN Null ELSE ReadTokens(store)

\* C4: when logout() returns, the stored Credential and the stored Identity
\* are both absent, whatever the session was and however the POST ended.
C4_LogoutClearsSession ==
    [][\A c \in Callers :
          (th[c].op = "logout" /\ th[c].pc = "lo_clear" /\ th'[c].pc = "done")
              => /\ GetTokensResult(secure') = Null
                 /\ getUser(secure') = Null]_vars

(***************************************************************************)
(* Properties of the offline queue.                                        *)
(***************************************************************************)
PersistedQueue == getQueue(astore)
Quiescent == \A c \in Callers : Idle(c)
\* c has run syncQueue() to its end and no other call was made since Init
OnlySync(c) == calls = 1 /\ th[c].op = "syncQueue" /\ th[c].pc = "done"

RECURSIVE CountOf(_, _)
CountOf(outcomes, kinds) ==
    IF outcomes = <<>> THEN 0
    ELSE (IF Head(outcomes) \in kinds THEN 1 ELSE 0) + CountOf(Tail(outcomes), kinds)

\* the actions of queue whose request did not get a 2xx response
RECURSIVE Unacked(_, _)
Unacked(queue, outcomes) ==
    IF queue = <<>> \/ outcomes = <<>> THEN queue
    ELSE IF Head(outcomes) = "ok"
         THEN Unacked(Tail(queue), Tail(outcomes))
         ELSE <<Head(queue)>> \o Unacked(Tail(queue), Tail(outcomes))

\* C5: in the executions made of addToQueue and syncQueue calls, an
\* operation that was enqueued and whose request never received a 2xx
\* response is in the persisted queue.
C5_NoOperationLost ==
    \A p \in added : p \notin acked => p \in PayloadsOf(PersistedQueue)

\* C6: one syncQueue() call over [A, B, C] where only the request of B
\* fails returns {synced: 2, failed: 1}, attempts A, B, C in that order and
\* leaves exactly [B]; in general a call attempts every operation of its
\* queue once, in order, and leaves the operations that got no 2xx response.
C6_FailingItemDoesNotBlock ==
    \A c \in Callers :
        OnlySync(c) =>
            /\ th[c].attempts = [i \in 1..Len(th[c].queue) |-> th[c].queue[i].payload]
            /\ PersistedQueue = Unacked(th[c].queue, th[c].outcomes)
            /\ (/\ Len(th[c].queue) = 3
                /\ th[c].outcomes[1] = "ok"
                /\ th[c].outcomes[2] # "ok"
                /\ th[c].outcomes[3] = "ok")
                   => /\ th[c].result = Return([synced |-> 2, failed |-> 1])
                      /\ PersistedQueue = <<th[c].queue[2]>>

\* C7: syncQueue() returns, with synced the number of 2xx responses and
\* failed the number of non-2xx responses and network exceptions, so that
\* synced + failed is the length of the queue it replayed.
C7_EveryOperationClassified ==
    \A c \in Callers :
        OnlySync(c) =>
            /\ th[c].result.kind = "return"
            /\ th[c].result.value.synced = CountOf(th[c].outcomes, {"ok"})
            /\ th[c].result.value.failed = CountOf(th[c].outcomes, {"rejected", "threw"})
            /\ th[c].result.value.synced + th[c].result.value.failed = Len(th[c].queue)

\* a queue in the order of the timestamps that addToQueue gave its actions
InEnqueueOrder(queue) ==
    \A i, j \in 1..Len(queue) : i < j => queue[i].timestamp <= queue[j].timestamp

\* C8: a syncQueue() call sends the requests of its queue in enqueue order,
\* one at a time: a request is sent only when every earlier request and the
\* removal that followed it have settled.
C8_SequentialInOrder ==
    /\ InEnqueueOrder(PersistedQueue)
    /\ \A c \in Callers :
          th[c].op = "syncQueue" =>
              /\ InEnqueueOrder(th[c].queue)
              /\ th[c].attempts = [i \in 1..th[c].idx |-> th[c].queue[i].payload]
              /\ Len(th[c].attempts) - Len(th[c].outcomes) \in {0, 1}
              /\ Len(th[c].attempts) - th[c].settled \in {0, 1}
              /\ th[c].pc = "sq_fetch" => th[c].settled = Len(th[c].attempts) - 1
              /\ th[c].pc \in {"rq_get", "rq_set"} =>
                    Len(th[c].outcomes) = Len(th[c].attempts)

\* a call sends its third request after a removal, over a queue to which
\* addToQueue has appended after the clock moved
C8_Witness ==
    \E c \in Callers :
        /\ th[c].op = "syncQueue"
        /\ th[c].pc = "sq_fetch"
        /\ th[c].idx = 3
        /\ th[c].synced >= 1
        /\ th[c].queue[3].timestamp > th[c].queue[2].timestamp + 1

\* C9: when no call is running, every operation that addToQueue appended is
\* in the persisted queue if nothing was removed, and no operation that
\* removeFromQueue removed is in it.
C9_MutationsSerialized ==
    Quiescent =>
        /\ removed = {} => PayloadsOf(PersistedQueue) = added
        /\ \A i \in 1..Len(PersistedQueue) : PersistedQueue[i].id \notin removed

(***************************************************************************)
(* Properties of the trips.                                                *)
(***************************************************************************)
\* the CREATE operations of trip in the persisted queue
QueuedCreates(trip) ==
    {i \in 1..Len(PersistedQueue) :
        /\ PersistedQueue[i].type = "CREATE"
        /\ PersistedQueue[i].method = "POST"
        /\ PersistedQueue[i].endpoint = "/trips"
        /\ PersistedQueue[i].payload = trip}

\* C10: when a createTrip call made while the device was offline, or whose
\* POST /trips failed at the transport level, has ended, the persisted queue
\* holds one CREATE operation (POST /trips) with the trip as payload.  The
\* calls that ended for want of a session are left aside.
C10_UnsentWriteIsQueued ==
    \A c \in Callers :
        (/\ th[c].op \in {"createTrip", "createTripQueued"}
         /\ th[c].pc = "done"
         /\ th[c].result # Throw("Utilisateur non authentifié")
         /\ th[c].offlineAtCall \/ th[c].post = NetworkError)
            => Cardinality(QueuedCreates(th[c].trip)) = 1

(***************************************************************************)
(* Further properties of the session manager.                             *)
(***************************************************************************)
\* C11: a call of auth.fetch to which getTokens() gave null fails with
\* 'Not authenticated' and has sent nothing; a call that awaits the refresh
\* of an expired access token has sent nothing, sends nothing and fails with
\* 'Session expired' when the refresh gives null, and otherwise sends its
\* request with the refreshed access token, not with the one it had read.  A
\* request sent without a refresh carries a token that is not expired.
C11_NoRequestWithoutCredential ==
    /\ [](\A c \in Callers :
            th[c].op = "fetch" =>
                /\ (th[c].pc = "done" /\ th[c].tokens = Null) =>
                      th[c].result = Throw("Not authenticated") /\ th[c].nreq = 0
                /\ th[c].pc = "f_await1" => th[c].nreq = 0
                /\ (th[c].pc = "done" /\ th[c].tokens # Null /\ th[c].nreq = 0) =>
                      th[c].result = Throw("Session expired"))
    /\ [][\A c \in Callers :
            th[c].op = "fetch" =>
                /\ (th[c].pc = "f_await1" /\ th'[c].pc # "f_await1") =>
                      IF RefreshValue(c) = Null
                      THEN /\ th'[c].pc = "clearTokens"
                           /\ th'[c].after = Throw("Session expired")
                           /\ th'[c].nreq = 0
                      ELSE /\ th'[c].pc = "f_req1"
                           /\ th'[c].bearer1 = RefreshValue(c).accessToken
                           /\ th'[c].bearer1 # th[c].tokens.accessToken
                /\ (th[c].pc = "f_getTokens" /\ th'[c].pc = "f_req1") =>
                      ~isTokenExpired(th'[c].bearer1, now)
                /\ (th[c].pc = "f_getTokens" /\ th'[c].pc = "f_await1") =>
                      isTokenExpired(th'[c].tokens.accessToken, now)]_vars

\* a call that read an expired access token has sent its request with the
\* access token of a successful refresh
C11_Witness ==
    \E c \in Callers :
        /\ th[c].op = "fetch" /\ th[c].pc = "done"
        /\ th[c].nrefresh = 1 /\ th[c].nrefresh401 = 0
        /\ th[c].refreshed # Null
        /\ th[c].nreq = 1
        /\ th[c].bearer1 = th[c].refreshed.accessToken
        /\ th[c].bearer1 # ExpiredAccess

\* C12: when a _doRefresh() whose request was answered with a non-2xx status
\* settles the promise of refreshTokens(), it settles it with null, and the
\* stored Credential and the stored Identity are both absent.
C12_RejectedRefreshClearsSession ==
    [][\A d \in Threads :
          (/\ th[d].op = "_doRefresh"
           /\ th[d].response # Null /\ ~Ok(th[d].response.status)
           /\ th[d].pc = "lo_clear" /\ th'[d].pc = "off")
              => /\ promises'[th[d].awaiting] = Null
                 /\ GetTokensResult(secure') = Null
                 /\ getUser(secure') = Null]_vars

\* thread t is inside logout()
InLogout(t) == th[t].pc \in {"lo_getTokens", "lo_gtClear", "lo_fetch", "lo_clear"}
\* the refresh that t awaited failed for good: no refresh token was stored,
\* or the refresh endpoint answered with a non-2xx status
UnrecoverableRefresh(t) ==
    /\ th[t].awaiting # 0
    /\ \/ pfound[th[t].awaiting] = "no"
       \/ poutcome[th[t].awaiting] = "rejected"

\* C13: a step that removes a stored Credential (one that is not a mock
\* token) is a step of logout, or of an operation whose refresh failed for
\* good.  The clearing that getAuthState() does after any failed refresh is
\* left aside.
C13_CredentialDeletedOnlyBy ==
    [][(/\ ReadTokens(secure) # Null
        /\ ~IsMock(secure)
        /\ ReadTokens(secure') = Null)
           => \E t \in Threads :
                 /\ th'[t] # th[t]
                 /\ \/ InLogout(t)
                    \/ UnrecoverableRefresh(t)
                    \/ th[t].op = "getAuthState"]_vars

\* C14: getAuthState() always returns, with isAuthenticated true exactly when
\* user and tokens are both non-null, and calls refreshTokens() at most once.
\* Reading no Identity or no Credential it reports unauthenticated; reading
\* both with an expired access token it awaits one refresh, after which it
\* either deletes the Credential, then the Identity, and reports
\* unauthenticated (null), or reports the user with the refreshed Credential.
C14_AuthStateResult ==
    /\ [](\A c \in Callers :
            th[c].op = "getAuthState" =>
                /\ th[c].nrefresh <= 1
                /\ th[c].pc = "done" =>
                      /\ th[c].result.kind = "return"
                      /\ th[c].result.value.isAuthenticated =
                            (th[c].result.value.user # Null /\ th[c].result.value.tokens # Null))
    /\ [][\A c \in Callers :
            th[c].op = "getAuthState" =>
                /\ (/\ th[c].pc = "as_read" /\ th'[c].pc # "as_read"
                    /\ getUser(secure) = Null \/ GetTokensResult(secure) = Null)
                      => \/ th'[c].pc = "as_gtClear"
                         \/ th'[c].pc = "done" /\ th'[c].result = Unauthenticated
                /\ (th[c].pc = "as_gtClear" /\ th'[c].pc # "as_gtClear")
                      => th'[c].pc = "done" /\ th'[c].result = Unauthenticated
                /\ (/\ th[c].pc = "as_read" /\ th'[c].pc # "as_read"
                    /\ getUser(secure) # Null /\ GetTokensResult(secure) # Null
                    /\ isTokenExpired(GetTokensResult(secure).accessToken, now))
                      => th'[c].pc = "as_await" /\ th'[c].nrefresh = 1
                /\ (th[c].pc = "as_await" /\ th'[c].pc # "as_await")
                      => IF RefreshValue(c) = Null
                         THEN th'[c].pc = "clearTokens"
                         ELSE /\ th'[c].pc = "done"
                              /\ th'[c].result = AuthState(th[c].user, RefreshValue(c), TRUE)
                              /\ th[c].user # Null
                /\ (th[c].pc = "clearTokens" /\ th'[c].pc # "clearTokens")
                      => th'[c].pc = "clearUser" /\ ReadTokens(secure') = Null
                /\ (th[c].pc = "clearUser" /\ th'[c].pc # "clearUser")
                      => /\ th'[c].pc = "done"
                         /\ getUser(secure') = Null
                         /\ th'[c].result = Unauthenticated]_vars

\* a call that read an expired session reports the user with the Credential
\* of the one refresh it awaited
C14_Witness ==
    \E c \in Callers :
        /\ th[c].op = "getAuthState" /\ th[c].pc = "done"
        /\ th[c].nrefresh = 1
        /\ th[c].refreshed # Null
        /\ th[c].result = AuthState(th[c].user, th[c].refreshed, TRUE)
        /\ th[c].result.value.tokens.accessToken # ExpiredAccess

(***************************************************************************)
(* Properties of isTokenExpired and of the stored Credential.              *)
(***************************************************************************)
\* the token has a payload with a claim exp that is a number
HasNumericExp(token) ==
    /\ token # Null
    /\ token.kind = "jwt"
    /\ "exp" \in DOMAIN token.payload
    /\ token.payload.exp.type = "number"

\* C15: isTokenExpired(token) is true when the token cannot be parsed or has
\* no numeric exp claim, and otherwise exactly when
\* now >= exp * 1000 - 60000.
C15_ExpiredPerMargin ==
    \A c \in Callers :
        (th[c].op = "isTokenExpired" /\ th[c].pc = "done") =>
            th[c].result.value =
                IF HasNumericExp(th[c].input)
                THEN th[c].at >= th[c].input.payload.exp.num * 1000 - 60000
                ELSE TRUE

\* getTokens() of caller c was the call made right after saveTokens() of d,
\* it has returned and no call was made since
ReadBack(c, d) ==
    /\ th[d].op = "saveTokens" /\ th[d].pc = "done"
    /\ th[c].op = "getTokens" /\ th[c].pc = "done"
    /\ th[c].seq = th[d].seq + 1
    /\ th[c].seq = calls

\* C16 as stated: getTokens() right after saveTokens(cred) returns cred, for
\* every Credential cred.
C16_RoundTripEveryCredential ==
    \A c, d \in Callers : ReadBack(c, d) => th[c].result = Return(th[d].input)

\* C16: getTokens() right after saveTokens(cred) returns cred field for
\* field when the access token of cred is not a mock token, and null, with
\* the stored tokens deleted, when it is one.
C16_RoundTrip ==
    \A c, d \in Callers :
        ReadBack(c, d) =>
            IF th[d].input.accessToken.kind = "mock"
            THEN th[c].result = Return(Null) /\ ReadTokens(secure) = Null
            ELSE /\ th[c].result.value.accessToken = th[d].input.accessToken
                 /\ th[c].result.value.refreshToken = th[d].input.refreshToken
                 /\ th[c].result.value.expiresAt = th[d].input.expiresAt

\* a Credential with an expiry of several digits, saved over another
\* session, was read back
C16_Witness ==
    \E c, d \in Callers :
        /\ ReadBack(c, d)
        /\ th[d].input.accessToken = ExpiredAccess
        /\ th[d].input.refreshToken = RefreshTok(1)
        /\ th[d].input.expiresAt = StartMs + TickMs + 1
        /\ th[c].result = Return(th[d].input)

\* a login or register call of caller c has ended and no call was made since
Finished(c) ==
    /\ th[c].op \in {"login", "register"}
    /\ th[c].pc = "done"
    /\ th[c].seq = calls

\* the answer was 2xx with a body holding an access token and a user
Accepted(c) ==
    /\ th[c].response # Null
    /\ Ok(th[c].response.status)
    /\ th[c].data # Null
    /\ "accessToken" \in DOMAIN th[c].data
    /\ "user" \in DOMAIN th[c].data

GenericMessages ==
    {"Login failed (401)", "Login failed (500)",
     "Registration failed (401)", "Registration failed (500)",
     "Invalid response from server", "JSON Parse error",
     "Network request failed", "Failed to fetch",
     "Cannot connect to server. Make sure the backend is running."}

\* what the server said in the body of a non-2xx answer
ServerMessages(c) ==
    IF th[c].response = Null \/ th[c].data = Null THEN {}
    ELSE {th[c].data[k] : k \in DOMAIN th[c].data \cap {"error", "message"}}

\* C17: login and register are all-or-nothing.  After a 2xx answer holding
\* an access token and a user the call returns them and the store holds that
\* Credential (refreshToken defaulting to the access token, expiresAt =
\* now + expiresIn * 1000 with 3600 for a missing or zero expiresIn, now
\* being an instant of the call) and that Identity, whatever it held before;
\* after any other answer the call throws the server's message or a generic
\* one and the store is what it was when the call was made.
C17_AllOrNothing ==
    \A c \in Callers :
        Finished(c) =>
            IF Accepted(c)
            THEN LET data == th[c].data
                     expiresIn == IF "expiresIn" \in DOMAIN data /\ data.expiresIn # 0
                                  THEN data.expiresIn ELSE 3600
                 IN  /\ th[c].result.kind = "return"
                     /\ secure["ACCESS_TOKEN"] = data.accessToken
                     /\ secure["REFRESH_TOKEN"] =
                           (IF "refreshToken" \in DOMAIN data THEN data.refreshToken
                            ELSE data.accessToken)
                     /\ parseInt(secure["TOKEN_EXPIRY"]) - expiresIn * 1000 \in th[c].at .. now
                     /\ getUser(secure) = data.user
                     /\ th[c].result.value.user = data.user
                     /\ th[c].result.value.tokens.accessToken = secure["ACCESS_TOKEN"]
                     /\ th[c].result.value.tokens.refreshToken = secure["REFRESH_TOKEN"]
                     /\ th[c].result.value.tokens.expiresAt = parseInt(secure["TOKEN_EXPIRY"])
            ELSE /\ th[c].result.kind = "throw"
                 /\ th[c].result.error \in ServerMessages(c) \cup GenericMessages
                 /\ secure = th[c].before

\* a registration that failed after a login that had replaced an earlier
\* session left the session of that login in the store
C17_Witness ==
    \E c, d \in Callers :
        /\ Finished(c) /\ th[c].op = "register" /\ ~Accepted(c)
        /\ th[c].response # Null /\ th[c].result = Throw("Bad request")
        /\ th[d].op = "login" /\ th[d].pc = "done" /\ Accepted(d)
        /\ th[d].before = Session(ValidAccess)
        /\ ~("refreshToken" \in DOMAIN th[d].data)
        /\ secure["REFRESH_TOKEN"] = th[d].data.accessToken
        /\ getUser(secure) = LoginUser

\* C18: checkIsOnline() returns the boolean of the platform's connectivity
\* signal at the moment it answers, false when the device is offline,
\* whatever the persisted queue holds.
C18_OnlineIsConnectivity ==
    \A c \in Callers :
        th[c].op = "checkIsOnline" /\ th[c].pc = "done" =>
            th[c].result = Return(JsBoolean(~th[c].offlineAtCall))

\* syncQueue() of caller c made its connectivity check while the device was
\* offline, or found the persisted queue empty
SyncHadNothingToDo(c) ==
    /\ th[c].op = "syncQueue"
    /\ th[c].pc \notin {"sq_online", "sq_get"}
    /\ th[c].offlineAtCall \/ th[c].queue = <<>>

\* C19: a syncQueue() that finds the device offline at its connectivity
\* check, or the persisted queue empty, sends no request, does not change
\* the persisted queue and returns {synced: 0, failed: 0}.
C19_NoOpWhenOfflineOrEmpty ==
    /\ [](\A c \in Callers :
            SyncHadNothingToDo(c) =>
                /\ th[c].attempts = <<>>
                /\ th[c].pc = "done"
                /\ th[c].result = Return([synced |-> 0, failed |-> 0]))
    /\ [][\A c \in Callers :
            SyncHadNothingToDo(c)' /\ th'[c] # th[c] => astore' = astore]_vars

\* the part of C19 about the empty queue
C19_NoOpWhenEmpty ==
    /\ [](\A c \in Callers :
            SyncHadNothingToDo(c) /\ ~th[c].offlineAtCall =>
                /\ th[c].attempts = <<>>
                /\ th[c].pc = "done"
                /\ th[c].result = Return([synced |-> 0, failed |-> 0]))
    /\ [][\A c \in Callers :
            SyncHadNothingToDo(c)' /\ ~th'[c].offlineAtCall /\ th'[c] # th[c]
                => astore' = astore]_vars

IdsOf(queue) == {queue[i].id : i \in 1..Len(queue)}

\* addToQueue() of caller c makes its new operation in this step
AssignsId(c) == th[c].op = "addToQueue" /\ th[c].pc = "aq_get" /\ th'[c].pc = "aq_set"
AssignedId(c) == th'[c].filtered[Len(th'[c].filtered)].id

\* C20: the operations of the persisted queue have pairwise distinct ids,
\* and addToQueue never gives a new operation an id that an operation of the
\* persisted queue has or that a removed operation had.
C20_IdsUnique ==
    /\ [](\A i, j \in 1..Len(PersistedQueue) :
            i # j => PersistedQueue[i].id # PersistedQueue[j].id)
    /\ [][\A c \in Callers :
            AssignsId(c) => AssignedId(c) \notin IdsOf(PersistedQueue) \cup removed]_vars

(***************************************************************************)
(* Properties of the trip list and of its cache.                           *)
(***************************************************************************)
\* getTrips() of caller c, called when nothing else ran, has ended
GotTrips(c) == th[c].op = "getTrips" /\ th[c].pc = "done" /\ th[c].seq > 0

\* its live fetch failed: auth.fetch threw, the answer was not 2xx or its
\* body did not parse
LiveFetchFailed(c) == th[c].data = Null

IdsOfTrips(trips) == [i \in 1..Len(trips) |-> trips[i].id]

\* C21: getTrips() never throws and always returns a list; when its live
\* fetch fails it returns the trips of the cache as it was at the call, in
\* their order, and the empty list when there was no cache.
C21_CacheFallback ==
    \A c \in Callers :
        GotTrips(c) =>
            /\ th[c].result.kind = "return"
            /\ LiveFetchFailed(c) =>
                  IF th[c].before = Null
                  THEN th[c].result.value = <<>>
                  ELSE /\ isArray(th[c].before.data)
                       /\ IdsOfTrips(th[c].result.value) = IdsOfTrips(th[c].before.data.items)

\* C21 for the calls that found a list, or nothing, in the cache
C21_CacheFallbackOfLists ==
    \A c \in Callers :
        GotTrips(c) /\ (th[c].before = Null \/ isArray(th[c].before.data)) =>
            /\ th[c].result.kind = "return"
            /\ LiveFetchFailed(c) =>
                  IF th[c].before = Null
                  THEN th[c].result.value = <<>>
                  ELSE IdsOfTrips(th[c].result.value) = IdsOfTrips(th[c].before.data.items)

\* the answer that the live fetch of getTrips() of caller c ended with
LastAnswer(c) ==
    IF th[c].op = "getTripsPlain" THEN th[c].response
    ELSE IF th[c].second # Null THEN th[c].second ELSE th[c].first

\* getTrips() of caller c writes the cache in this step
WritesCache(c) ==
    /\ th[c].op \in {"getTrips", "getTripsPlain"}
    /\ th[c].pc \in {"trips_cache", "tp_cache"}
    /\ th'[c].pc = "done"

\* C22: the trip cache changes only when a getTrips() whose live fetch was
\* answered 2xx overwrites it, getCachedTrips() then returns what that call
\* passed to cacheTrips, and with nothing cached it returns null; a getTrips()
\* whose fetch failed leaves the cache as it is.
C22_LastKnownGood ==
    /\ [](astore.trips = Null => getCachedTrips(astore) = Null)
    /\ [][astore.trips' # astore.trips =>
            \E c \in Callers :
                /\ WritesCache(c)
                /\ LastAnswer(c) # Null /\ Ok(LastAnswer(c).status)
                /\ getCachedTrips(astore)' = th[c].data]_vars

\* C22 for the first getTrips of the file (api.ts:151-196)
C22_LastKnownGoodChecked ==
    [][astore.trips' # astore.trips /\ (\A c \in Callers : th[c].op # "getTripsPlain") =>
            \E c \in Callers :
                /\ WritesCache(c)
                /\ LastAnswer(c) # Null /\ Ok(LastAnswer(c).status)
                /\ getCachedTrips(astore)' = th[c].data]_vars

(***************************************************************************)
(* Properties of logout.                                                   *)
(***************************************************************************)
\* logout() of caller c, called when nothing else ran, has ended and no call
\* was made since
LoggedOut(c) == th[c].op = "logout" /\ th[c].pc = "done" /\ th[c].seq = calls

\* no Credential is stored
NoSession(store) == store["ACCESS_TOKEN"] = Null

\* C23: logout() called when no Credential is stored does not throw, sends no
\* request (it reads no tokens to send) and leaves the storage empty; a
\* logout() called right after another logout() leaves the storage as that
\* one left it.
C23_LogoutIdempotent ==
    /\ [](\A c \in Callers :
            LoggedOut(c) =>
                /\ th[c].result = Return(Null)
                /\ NoSession(th[c].before) => th[c].tokens = Null /\ secure = EmptyStore
                /\ \A d \in Callers :
                      th[d].op = "logout" /\ th[d].pc = "done" /\ th[d].seq + 1 = th[c].seq
                          => secure = th[c].before)
    /\ [][\A c \in Callers :
            th[c].op = "logout" /\ th[c].seq > 0 /\ NoSession(th[c].before)
                => th'[c].pc # "lo_fetch"]_vars

\* a logout() has ended that was called right after another one, which had
\* found the session of a mock token, and so with no Credential stored
C23_Witness ==
    \E c, d \in Callers :
        /\ LoggedOut(c)
        /\ th[d].op = "logout" /\ th[d].pc = "done" /\ th[d].seq + 1 = th[c].seq
        /\ th[d].before = Session(MockToken)
        /\ NoSession(th[c].before) /\ getUser(th[c].before) = Null
        /\ secure = EmptyStore

(***************************************************************************)
(* Properties of the refresh marker.                                       *)
(***************************************************************************)
\* caller c enters refreshTokens() in this step
StartsRefresh(c) == ~Waiting(c) /\ Waiting(c)'

\* C24 as stated: a refreshTokens() call never awaits a promise that had
\* settled before the call, and every refresh that starts after an earlier
\* one has settled sends its own request to the refresh endpoint.
C24_OwnRequest ==
    /\ [](\A p \in DOMAIN promises : p > 1 /\ promises[p] # Pending => pcalls[p] = 1)
    /\ [][\A c \in Callers :
            StartsRefresh(c) /\ th'[c].awaiting \in DOMAIN promises =>
                promises[th'[c].awaiting] = Pending]_vars

\* C24: once a refresh has settled and the continuations of its promise have
\* run, the finally block among them, the marker is null; a refreshTokens()
\* call made from then on never awaits a promise that had settled before the
\* call, a caller receives the value of the promise it awaited, and a
\* _doRefresh() sends its own request whenever it finds a stored Credential
\* (without one it resolves to null with no request).
C24_MarkerCleared ==
    /\ [](/\ refreshPromise # 0 /\ ~Microtasks => promises[refreshPromise] = Pending
          /\ \A c \in Callers : Got(c) => th[c].refreshed = promises[th[c].awaiting]
          /\ \A p \in DOMAIN promises :
                promises[p] # Pending =>
                    /\ pfound[p] = "yes" => pcalls[p] = 1
                    /\ pfound[p] = "no" => pcalls[p] = 0 /\ promises[p] = Null)
    /\ [][\A c \in Callers :
            StartsRefresh(c) /\ ~Microtasks =>
                /\ promises'[th'[c].awaiting] = Pending
                /\ th'[c].awaiting \in DOMAIN promises =>
                      promises[th'[c].awaiting] = Pending]_vars

\* a second refresh has sent its own request after a first one, which the
\* server had rejected, had resolved to null
C24_Witness ==
    /\ Len(promises) = 2
    /\ promises[1] = Null /\ poutcome[1] = "rejected"
    /\ promises[2] # Pending /\ promises[2] # Null
    /\ pcalls[2] = 1
    /\ refreshPromise = 0

\* _doRefresh() d, whose request was answered 2xx, persists and returns in this step
RefreshPersists(d) == IsDr(d) /\ th[d].pc = "dr_save" /\ th'[d].pc = "off"

Removed(c) == th[c].op = "removeFromQueue" /\ th[c].pc = "done" /\ th[c].seq = calls

\* queue q without its i-th operation
Without(q, i) == SubSeq(q, 1, i - 1) \o SubSeq(q, i + 1, Len(q))

\* C26: removeFromQueue(id) takes the operation with that id out of the
\* queue and leaves every other operation in it, as it was and in its place;
\* with no operation of that id the queue content is as before, and the
\* call does not fail.
C26_RemovesOnlyThat ==
    \A c \in Callers :
        Removed(c) =>
            LET q == th[c].before.queue
            IN  /\ th[c].result = Return(Null)
                /\ IF \E i \in 1..Len(q) : q[i].id = th[c].rid
                   THEN \E i \in 1..Len(q) :
                           q[i].id = th[c].rid /\ PersistedQueue = Without(q, i)
                   ELSE PersistedQueue = q

\* C26 for the queues whose operations have distinct ids
C26_RemovesOnlyThatOfDistinct ==
    \A c \in Callers :
        Removed(c) /\ (\A i, j \in 1..Len(th[c].before.queue) :
                          i # j => th[c].before.queue[i].id # th[c].before.queue[j].id) =>
            LET q == th[c].before.queue
            IN  /\ th[c].result = Return(Null)
                /\ IF \E i \in 1..Len(q) : q[i].id = th[c].rid
                   THEN \E i \in 1..Len(q) :
                           q[i].id = th[c].rid /\ PersistedQueue = Without(q, i)
                   ELSE PersistedQueue = q


(***************************************************************************)
(* The useOffline hook (use-offline.ts:6-58) over OFFLINE.syncQueue.       *)
(***************************************************************************)
\* the connectivity reports NetInfo delivers while the hook is mounted
MaxEvents == 1

\* marks a syncQueue() call made by syncNow
FromHook == [caller |-> "syncNow"]

\* use-offline.ts:34-38: syncNow with the state of the render that made it;
\* hk is the state of the hook as the caller of syncNow leaves it
syncNow(c, closure, hk) ==
    IF closure.isSyncing \/ ~closure.isOnline
    THEN /\ hook' = hk
         /\ UNCHANGED th
    ELSE /\ th[c].pc = "idle"
         /\ hook' = [hk EXCEPT !.isSyncing = TRUE]
         /\ th' = [th EXCEPT ![c] = [Begin(c, "syncQueue", "sq_online")
                                        EXCEPT !.input = FromHook]]

\* use-offline.ts:15-22: the listener the effect of the first render gave to
\* NetInfo runs; pendingCount and syncNow are those of that render
HookNetInfoListener ==
    /\ hook.events < MaxEvents
    /\ ~Microtasks
    /\ \E connected \in BOOLEAN :
          LET hk == [hook EXCEPT !.isOnline = connected, !.events = @ + 1,
                                 !.regained = connected /\ ~online]
          IN  /\ online' = connected
              /\ IF connected /\ hook.listener.pendingCount > 0
                 THEN \E c \in Callers : syncNow(c, hook.listener.syncNow, hk)
                 ELSE /\ hook' = hk
                      /\ UNCHANGED th
    /\ UNCHANGED <<clock, calls, authVars, astore, added, removed, acked>>

\* use-offline.ts:24 and 29-32: the loadPendingCount() of the effect
HookLoadPendingCount ==
    /\ hook.loading
    /\ ~Microtasks
    /\ hook' = [hook EXCEPT !.pendingCount = Len(getQueue(astore)), !.loading = FALSE]
    /\ UNCHANGED <<clock, calls, authVars, th, online, astore, added, removed, acked>>

\* use-offline.ts:34-49: a render after isOnline or isSyncing changed makes
\* a new syncNow (useCallback with [isOnline, isSyncing])
HookRender ==
    /\ hook.syncNow # Closure(hook.isSyncing, hook.isOnline)
    /\ hook' = [hook EXCEPT !.syncNow = Closure(hook.isSyncing, hook.isOnline)]
    /\ UNCHANGED <<clock, calls, authVars, th, online, astore, added, removed, acked>>

\* the component that uses the hook calls the syncNow of its latest render
HookCallSyncNow(c) ==
    /\ calls < MaxCalls
    /\ ~(hook.syncNow.isSyncing \/ ~hook.syncNow.isOnline)
    /\ syncNow(c, hook.syncNow, hook)
    /\ calls' = calls + 1
    /\ UNCHANGED <<clock, authVars, online, astore, added, removed, acked>>

\* use-offline.ts:40-43: syncQueue() has returned to syncNow, which calls
\* loadPendingCount()
HookSyncReturned(c) ==
    /\ th[c].pc = "done"
    /\ th[c].op = "syncQueue"
    /\ th[c].input = FromHook
    /\ th' = [th EXCEPT ![c] = [@ EXCEPT !.pc = "hk_load"]]
    /\ UNCHANGED <<clock, calls, authVars, queueVars>>

\* use-offline.ts:29-32 and 46-48: the queue is read, pendingCount is set
\* and the finally block sets isSyncing to false
HookSyncLoaded(c) ==
    /\ AtIO(c, "hk_load")
    /\ hook' = [hook EXCEPT !.pendingCount = Len(getQueue(astore)), !.isSyncing = FALSE]
    /\ th' = [th EXCEPT ![c] = Fresh]
    /\ UNCHANGED <<clock, calls, authVars, online, astore, added, removed, acked>>

\* the steps the event loop takes by itself
HookInternal ==
    \/ HookLoadPendingCount
    \/ HookRender
    \/ \E c \in Callers :
          \/ HookSyncReturned(c) \/ HookSyncLoaded(c)
          \/ SyncCheckOnline(c) \/ SyncGetQueue(c) \/ SyncResponse(c)
          \/ RemoveFromQueueRead(c) \/ RemoveFromQueueWrite(c)

NextHook ==
    \/ HookNetInfoListener
    \/ \E c \in Callers : HookCallSyncNow(c)
    \/ HookInternal

SpecHook == InitQueue /\ [][NextHook]_vars

\* every step of the event loop that can be taken is taken; nothing obliges
\* the network to change or the user to act
SpecHookLive == SpecHook /\ WF_vars(HookInternal)


\* a syncQueue() call made by the hook is running or has returned to it
HookSyncing == \E c \in Callers : th[c].op = "syncQueue" /\ th[c].input = FromHook

\* the queue holds an operation whose request a replay has seen answered 2xx
AckedInQueue(p) == p \in acked /\ p \in PayloadsOf(PersistedQueue)

\* C27: whenever the connectivity signal changes to online while the
\* persisted queue is not empty, the hook eventually calls
\* OFFLINE.syncQueue(), and every queued operation whose request was
\* answered 2xx is eventually removed from the queue.
C27_EventuallyFlushed ==
    /\ (hook.regained /\ PersistedQueue # <<>>) ~> HookSyncing
    /\ \A p \in {[trip |-> i] : i \in 1..MaxInitQueue} :
          AckedInQueue(p) ~> (p \notin PayloadsOf(PersistedQueue))


\* the syncQueue() call of thread c has not returned yet
SyncRunning(c) ==
    /\ th[c].op = "syncQueue"
    /\ th[c].pc \in {"sq_online", "sq_get", "sq_fetch", "rq_get", "rq_set"}

\* the syncQueue() call of thread c has sent payload p and seen it answered 2xx
Applied(c, p) ==
    /\ th[c].op = "syncQueue"
    /\ \E i \in 1..Len(th[c].outcomes) : th[c].attempts[i] = p /\ th[c].outcomes[i] = "ok"

\* the requests the syncQueue() call of thread c has made for payload p
Sends(c, p) ==
    IF th[c].op = "syncQueue"
    THEN Cardinality({i \in 1..Len(th[c].attempts) : th[c].attempts[i] = p})
    ELSE 0

\* syncNow never has two syncQueue() calls running
C30_OneSyncAtATime ==
    \A c, d \in Callers :
        (c # d /\ th[c].input = FromHook /\ th[d].input = FromHook)
            => ~(SyncRunning(c) /\ SyncRunning(d))

\* of two syncQueue() calls that overlap, at most one sends a given operation
C30_SentOnce ==
    \A c, d \in Callers : \A p \in added :
        (c # d /\ (SyncRunning(c) \/ SyncRunning(d)))
            => Sends(c, p) + Sends(d, p) <= 1

\* C30: syncNow never starts a second OFFLINE.syncQueue() while an earlier
\* one is still running, and under any interleaving of two syncQueue() calls
\* no queued operation is sent to the server more than once before it is
\* removed from the queue.
C30_NoDoubleApply == C30_OneSyncAtATime /\ C30_SentOnce

\* two overlapping syncQueue() calls have both had the same operation accepted
C30_AppliedTwice ==
    \E c, d \in Callers : \E p \in added :
        c # d /\ Applied(c, p) /\ Applied(d, p)


\* logout() of thread c was called while a refresh was in flight and has
\* returned, and nothing is running any more
LogoutDuringRefreshSettled(c) ==
    /\ th[c].op = "logout"
    /\ th[c].pc = "done"
    /\ th[c].input = [refreshing |-> TRUE]
    /\ refreshPromise = 0
    /\ \A t \in Threads : th[t].pc \in {"idle", "done", "off"}

\* C29: if logout() is called while a refreshTokens() call is outstanding,
\* then once both have settled the stored Credential is absent (so that a
\* following auth.fetch fails with 'Not authenticated' without a request).
C29_LogoutNotUndone ==
    \A c \in Callers :
        LogoutDuringRefreshSettled(c) => GetTokensResult(secure) = Null


(***************************************************************************)
(* saveTokens (auth.ts:97-103) and getTokens (auth.ts:104-136) key by key: *)
(* each starts three SecureStore calls under one Promise.all, and the      *)
(* three calls complete one by one, in any order.                          *)
(***************************************************************************)
\* what saveTokens gives to secureStorage.set for key k (auth.ts:99-101)
ValueFor(tokens, k) == saveTokens(EmptyStore, tokens)[k]

\* auth.ts:97-103: the three set() calls are started
CallSaveTokensKeys(c) ==
    /\ CanCall(c)
    /\ \E tokens \in Credentials :
          th' = [th EXCEPT ![c] = [Begin(c, "saveTokens", "st_keys")
                                      EXCEPT !.input = tokens,
                                             !.data = [pending |-> TOKEN_KEYS]]]
    /\ calls' = calls + 1
    /\ UNCHANGED <<clock, authVars, queueVars>>

\* auth.ts:37-39: one SecureStore.setItemAsync completes; saveTokens returns
\* after the last of the three
SecureSet(c, k) ==
    /\ AtIO(c, "st_keys")
    /\ k \in th[c].data.pending
    /\ secure' = [secure EXCEPT ![k] = ValueFor(th[c].input, k)]
    /\ th' = [th EXCEPT ![c] =
                IF th[c].data.pending = {k}
                THEN [@ EXCEPT !.pc = "done", !.data = Null, !.result = Return(Null)]
                ELSE [@ EXCEPT !.data = [pending |-> th[c].data.pending \ {k}]]]
    /\ UNCHANGED <<clock, calls, refreshVars, issued, queueVars>>

\* auth.ts:105-109: the three get() calls are started
CallGetTokensKeys(c) ==
    /\ CanCall(c)
    /\ th' = [th EXCEPT ![c] = [Begin(c, "getTokens", "gt_keys")
                                   EXCEPT !.data = [pending |-> TOKEN_KEYS,
                                                    got |-> [k \in TOKEN_KEYS |-> Null]]]]
    /\ calls' = calls + 1
    /\ UNCHANGED <<clock, authVars, queueVars>>

\* auth.ts:40-42 and 111-135: one SecureStore.getItemAsync completes; after
\* the last of the three getTokens goes on with what the three have read
SecureGet(c, k) ==
    /\ AtIO(c, "gt_keys")
    /\ k \in th[c].data.pending
    /\ LET got == [th[c].data.got EXCEPT ![k] = secure[k]]
       IN  th' = [th EXCEPT ![c] =
                    IF th[c].data.pending # {k}
                    THEN [@ EXCEPT !.data = [pending |-> th[c].data.pending \ {k},
                                             got |-> got]]
                    ELSE IF IsMock(got)
                    THEN [@ EXCEPT !.pc = "gt_clear", !.data = Null]
                    ELSE [@ EXCEPT !.pc = "done", !.data = Null,
                                   !.result = Return(ReadTokens(got))]]
    /\ UNCHANGED <<clock, calls, authVars, queueVars>>

NextKeys ==
    \/ \E c \in Callers : CallSaveTokensKeys(c) \/ CallGetTokensKeys(c)
    \/ \E c \in Callers : \E k \in TOKEN_KEYS : SecureSet(c, k) \/ SecureGet(c, k)
    \/ \E c \in Callers : GetTokensClear(c)

SpecKeys == InitAuth /\ [][NextKeys]_vars

\* the Credentials that were stored whole: those of the sessions the app can
\* start with and those given to a saveTokens call
WholeCredentials ==
    {ReadTokens(store) : store \in InitStores}
        \cup {ReadTokens(saveTokens(EmptyStore, th[c].input)) :
                 c \in {d \in Callers : th[d].op = "saveTokens"}}

\* C28: under any interleaving of saveTokens with a concurrent getTokens,
\* getTokens never returns a Credential that mixes fields of two different
\* saves.
C28_ReadWhole ==
    \A c \in Callers :
        (th[c].op = "getTokens" /\ th[c].pc = "done" /\ th[c].result # Return(Null))
            => th[c].result.value \in WholeCredentials

====
